---------------------------- MODULE Spec2Model ----------------------------
(***************************************************************************)
(* Model of client/router_update.go: RouterUpdateVersionInNamespace, the   *)
(* in-place upgrade of a skupper site, run against a Kubernetes object     *)
(* store.  One action per request (or request-free decision) of the        *)
(* function; the object store, the update marker and the two deployments   *)
(* are the durable state, the function's locals are the record inv.        *)
(***************************************************************************)
EXTENDS Integers, Sequences, FiniteSets, TLC

(***************************************************************************)
(* Bounds of the model.                                                    *)
(***************************************************************************)
\* number of invocations of RouterUpdateVersionInNamespace in one behaviour
MaxInvocations == 2
\* number of those invocations in which requests are refused or the process dies
MaxFaultyInvocations == 1
\* number of refused requests in one invocation whose error the function drops
MaxIgnoredErrors == 2
\* number of times the processor passes between two overlapping invocations
MaxSwitches == 2

(***************************************************************************)
(* Version tokens: <<major, minor, patch, qualifier>>.                     *)
(***************************************************************************)
V042 == <<0, 4, 2, "">>
V050 == <<0, 5, 0, "">>
V060rc1 == <<0, 6, 0, "rc1">>
V060 == <<0, 6, 0, "">>
V070 == <<0, 7, 0, "">>

\* the naming-scheme threshold "0.5.0" of lines 86 and 89
RenameThreshold == V050

\* versions a site may record before the first modelled invocation
InitialSiteVersions == {V042, V050, V060rc1, V070}
\* values of the library's Version variable
LibraryVersions == {V060rc1, V060}

NumericVersion(v) == <<v[1], v[2], v[3]>>

NumericLess(a, b) ==
    \/ a[1] < b[1]
    \/ a[1] = b[1] /\ a[2] < b[2]
    \/ a[1] = b[1] /\ a[2] = b[2] /\ a[3] < b[3]

\* utils.LessRecentThanVersion(a, b): a's numeric version is below b's
LessRecentThanVersion(a, b) == NumericLess(NumericVersion(a), NumericVersion(b))

\* utils.MoreRecentThanVersion(a, b)
MoreRecentThanVersion(a, b) == NumericLess(NumericVersion(b), NumericVersion(a))

\* utils.EquivalentVersion(a, b): same numeric version, qualifiers ignored
EquivalentVersion(a, b) == NumericVersion(a) = NumericVersion(b)

(***************************************************************************)
(* Object names.  Legacy names are the string literals of the source; the  *)
(* current names are the constants of api/types the source refers to.      *)
(***************************************************************************)
LocalTransportServiceName == "skupper-router-local"
TransportServiceName == "skupper-router"
ControllerServiceName == "skupper"
RouterConsoleServiceName == "skupper-router-console"
LocalCaSecret == "skupper-local-ca"
SiteCaSecret == "skupper-site-ca"
LocalServerSecret == "skupper-local-server"
LocalClientSecret == "skupper-local-client"
SiteServerSecret == "skupper-site-server"
OauthConsoleSecret == "skupper-console-certs"
OauthRouterConsoleSecret == "skupper-router-console-certs"
TransportServiceAccountName == "skupper-router"
ControllerServiceAccountName == "skupper-service-controller"
TransportRoleName == "skupper-router"
ControllerRoleName == "skupper-service-controller"
TransportRoleBindingName == "skupper-router"
ControllerRoleBindingName == "skupper-service-controller"
ConsoleRouteName == "skupper"
EdgeRouteName == "skupper-edge"
InterRouterRouteName == "skupper-inter-router"
TransportDeploymentName == "skupper-router"
ControllerDeploymentName == "skupper-service-controller"
Namespace == "ns"

\* namespace-qualified DNS name of a service
qualifiedServiceName(name, namespace) ==
    name \o "." \o namespace \o ".svc.cluster.local"

(***************************************************************************)
(* Finite maps (objects of one kind, by name).                             *)
(***************************************************************************)
Put(f, k, v) == [x \in DOMAIN f \cup {k} |-> IF x = k THEN v ELSE f[x]]
Remove(f, k) == [x \in DOMAIN f \ {k} |-> f[x]]
EmptyMap == [x \in {} |-> TRUE]

NoMarker == <<>>


(***************************************************************************)
(* State.                                                                  *)
(***************************************************************************)
VARIABLES
    routeClient,      \* cli.RouteClient != nil (the cluster serves routes)
    siteVersion,      \* SiteMetadata.version in config map skupper-internal
    marker,           \* config map skupper-update-state: NoMarker or <<from>>
    services,         \* name -> [type, host, cert]
    secrets,          \* name -> [ca, subject, hosts, connectJson]
    serviceAccounts,  \* set of names
    roles,            \* set of names
    roleBindings,     \* set of names
    routes,           \* name -> target service name
    deployments,      \* name -> [serviceAccountName, volumes, image, oauth, updated]
    inv,              \* locals of the running invocation
    log,              \* effective requests of the running invocation, in order
    clock,            \* invocations started so far (time.Now of touch)
    faulty,           \* invocations started so far that may meet faults
    prev,             \* how the previous invocation ended
    peer              \* locals and log of an overlapping invocation, while it waits

store == <<routeClient, siteVersion, marker, services, secrets, serviceAccounts,
           roles, roleBindings, routes, deployments>>
vars == <<store, inv, log, clock, faulty, prev, peer>>

(***************************************************************************)
(* Images.  GetRouterImageName / GetServiceControllerImageName give the    *)
(* image the library build wants; builds of one minor release share it.    *)
(***************************************************************************)
GetRouterImageName(version) == <<"router", version[1], version[2]>>
GetServiceControllerImageName(version) == <<"service-controller", version[1], version[2]>>

(***************************************************************************)
(* Sites as skupper init of the recorded version left them.                *)
(***************************************************************************)
Topologies == {"route", "loadbalancer", "clusterip"}
\* host a load balancer may have assigned to a service: for the transport
\* service an IP address, or a DNS name longer than a certificate subject
LoadBalancerHosts(name) ==
    IF name = "skupper" THEN {"console.example.com"}
    ELSE {"10.0.0.2",
          "a1b2c3d4e5f6a7b8c9d0e1f2a3b4c5d6-1234567890.us-east-1.elb.amazonaws.com"}
\* host the load balancer of a legacy site gave its services
LegacyHosts == {"10.0.0.1"}

Signed(ca, subject, hosts) ==
    [ca |-> ca, subject |-> subject, hosts |-> hosts, connectJson |-> FALSE]

ServiceType(topology) == IF topology = "loadbalancer" THEN "LoadBalancer" ELSE "ClusterIP"

LegacyServices(topology, host) ==
    LET base == [n \in {"skupper-messaging", "skupper-internal", "skupper-controller"} |->
                    [type |-> IF n = "skupper-messaging" THEN "ClusterIP" ELSE ServiceType(topology),
                     host |-> IF n # "skupper-messaging" /\ topology = "loadbalancer" THEN host ELSE "",
                     cert |-> IF n = "skupper-controller" /\ topology = "route"
                              THEN "skupper-controller-certs" ELSE ""]]
    IN  IF topology = "route"
        THEN Put(base, RouterConsoleServiceName,
                 [type |-> "ClusterIP", host |-> "", cert |-> "skupper-proxy-certs"])
        ELSE base

LegacySecrets ==
    [n \in {"skupper", "skupper-amqps", "skupper-ca", "skupper-internal", "skupper-internal-ca"} |->
        CASE n = "skupper" ->
               [ca |-> "skupper-ca", subject |-> "skupper-messaging", hosts |-> <<>>, connectJson |-> TRUE]
          [] n = "skupper-amqps" ->
               Signed("skupper-ca", "skupper-messaging", <<"skupper-messaging">>)
          [] n = "skupper-internal" ->
               Signed("skupper-internal-ca", "skupper-internal", <<"skupper-internal">>)
          [] OTHER -> Signed("", n, <<>>)]

LegacyRoutes(topology) ==
    IF topology = "route"
    THEN [n \in {"skupper-controller", EdgeRouteName, InterRouterRouteName} |->
            IF n = "skupper-controller" THEN "skupper-controller" ELSE "skupper-internal"]
    ELSE EmptyMap

LegacyDeployments(topology, version) ==
    [n \in {TransportDeploymentName, ControllerDeploymentName} |->
        IF n = TransportDeploymentName
        THEN [serviceAccountName |-> "skupper",
              volumes |-> {"skupper-amqps", "skupper-internal"}
                          \cup (IF topology = "route" THEN {"skupper-proxy-certs"} ELSE {}),
              image |-> GetRouterImageName(version),
              oauth |-> IF topology = "route" THEN "skupper" ELSE "",
              updated |-> 0]
        ELSE [serviceAccountName |-> "skupper-proxy-controller",
              volumes |-> {"skupper"}
                          \cup (IF topology = "route" THEN {"skupper-controller-certs"} ELSE {}),
              image |-> GetServiceControllerImageName(version),
              oauth |-> IF topology = "route" THEN "skupper-proxy-controller" ELSE "",
              updated |-> 0]]

CurrentServices(topology, host) ==
    LET base == [n \in {LocalTransportServiceName, TransportServiceName, ControllerServiceName} |->
                    [type |-> IF n = LocalTransportServiceName THEN "ClusterIP" ELSE ServiceType(topology),
                     host |-> IF n # LocalTransportServiceName /\ topology = "loadbalancer" THEN host ELSE "",
                     cert |-> IF n = ControllerServiceName /\ topology = "route"
                              THEN OauthConsoleSecret ELSE ""]]
    IN  IF topology = "route"
        THEN Put(base, RouterConsoleServiceName,
                 [type |-> "ClusterIP", host |-> "", cert |-> OauthRouterConsoleSecret])
        ELSE base

CurrentSecrets ==
    [n \in {LocalCaSecret, SiteCaSecret, LocalServerSecret, LocalClientSecret, SiteServerSecret} |->
        CASE n = LocalClientSecret ->
               [ca |-> LocalCaSecret, subject |-> LocalTransportServiceName, hosts |-> <<>>,
                connectJson |-> TRUE]
          [] n = LocalServerSecret ->
               Signed(LocalCaSecret, LocalTransportServiceName, <<LocalTransportServiceName>>)
          [] n = SiteServerSecret ->
               Signed(SiteCaSecret, TransportServiceName, <<TransportServiceName>>)
          [] OTHER -> Signed("", n, <<>>)]

CurrentRoutes(topology) ==
    IF topology = "route"
    THEN [n \in {ConsoleRouteName, EdgeRouteName, InterRouterRouteName} |->
            IF n = ConsoleRouteName THEN ControllerServiceName ELSE TransportServiceName]
    ELSE EmptyMap

CurrentDeployments(topology, version) ==
    [n \in {TransportDeploymentName, ControllerDeploymentName} |->
        IF n = TransportDeploymentName
        THEN [serviceAccountName |-> TransportServiceAccountName,
              volumes |-> {LocalServerSecret, SiteServerSecret}
                          \cup (IF topology = "route" THEN {OauthRouterConsoleSecret} ELSE {}),
              image |-> GetRouterImageName(version),
              oauth |-> IF topology = "route" THEN TransportServiceAccountName ELSE "",
              updated |-> 0]
        ELSE [serviceAccountName |-> ControllerServiceAccountName,
              volumes |-> {LocalClientSecret}
                          \cup (IF topology = "route" THEN {OauthConsoleSecret} ELSE {}),
              image |-> GetServiceControllerImageName(version),
              oauth |-> IF topology = "route" THEN ControllerServiceAccountName ELSE "",
              updated |-> 0]]

(***************************************************************************)
(* Locals of RouterUpdateVersionInNamespace, before an invocation.         *)
(***************************************************************************)
IdleInv ==
    [pc |-> "idle", Version |-> V060, hup |-> FALSE, faults |-> FALSE,
     ignored |-> 0, siteVersion |-> V060, rename |-> FALSE, inprogress |-> FALSE,
     originalVersion |-> NoMarker, updateSite |-> FALSE, usingRoutes |-> FALSE,
     consoleUsesLoadbalancer |-> FALSE, routerExposedAsIp |-> FALSE,
     credentials |-> <<>>, i |-> 1,
     updateRouter |-> FALSE, updateController |-> FALSE,
     ret |-> FALSE, err |-> FALSE, crashed |-> FALSE, at |-> "idle"]

NoPrev == [outcome |-> "none", at |-> "idle", Version |-> V060, hup |-> FALSE]

\* versions whose images the deployments of a site of the given version may run:
\* its own, or those of 0.5.0 when an earlier update stopped after the
\* config map was written (line 104) and before the deployments were (line 371)
DeployedVersions(version) ==
    {version} \cup {v \in {V050} : LessRecentThanVersion(v, version)}

Init ==
    \E topology \in Topologies, version \in InitialSiteVersions, host \in LegacyHosts :
      \E deployed \in DeployedVersions(version) :
        LET legacy == LessRecentThanVersion(version, RenameThreshold) IN
        /\ routeClient = (topology = "route")
        /\ siteVersion = version
        /\ marker = NoMarker
        /\ services = IF legacy THEN LegacyServices(topology, host)
                      ELSE CurrentServices(topology, host)
        /\ secrets = IF legacy THEN LegacySecrets ELSE CurrentSecrets
        /\ serviceAccounts = IF legacy THEN {"skupper", "skupper-proxy-controller"}
                             ELSE {TransportServiceAccountName, ControllerServiceAccountName}
        /\ roles = IF legacy THEN {"skupper-edit", "skupper-view"}
                   ELSE {TransportRoleName, ControllerRoleName}
        /\ roleBindings = IF legacy
                          THEN {"skupper-proxy-controller-skupper-edit", "skupper-skupper-view"}
                          ELSE {TransportRoleBindingName, ControllerRoleBindingName}
        /\ routes = IF legacy THEN LegacyRoutes(topology) ELSE CurrentRoutes(topology)
        /\ deployments = IF legacy THEN LegacyDeployments(topology, deployed)
                         ELSE CurrentDeployments(topology, deployed)
        /\ inv = IdleInv
        /\ log = <<>>
        /\ clock = 0
        /\ faulty = 0
        /\ prev = NoPrev
        /\ peer = [inv |-> IdleInv, log |-> <<>>, switches |-> 0]

(***************************************************************************)
(* Helpers of the actions.                                                 *)
(***************************************************************************)
Req(op, kind, name) == [op |-> op, kind |-> kind, name |-> name]

\* the locals after "return ret, err" at the current position
Returned(ret, err) ==
    [inv EXCEPT !.pc = "done", !.ret = ret, !.err = err, !.at = inv.pc, !.i = 1]

At(p) == [inv EXCEPT !.pc = p]

Others == <<clock, faulty, prev, peer>>

(***************************************************************************)
(* The decisions of lines 76-89.                                           *)
(***************************************************************************)
\* the comparison of line 76 with its arguments exchanged
SiteIsNewerReversed(version, site) == LessRecentThanVersion(site, version)

\* line 76: the site is newer than the library
SiteIsNewer(version, site) == LessRecentThanVersion(version, site)

\* the comparison of line 86 with its arguments exchanged
ResumedRenameReversed(inprogress, originalVersion) ==
    inprogress /\ LessRecentThanVersion(RenameThreshold, originalVersion)

\* lines 85-87: rename as decided from the marker
ResumedRename(inprogress, originalVersion) ==
    inprogress /\ LessRecentThanVersion(originalVersion, RenameThreshold)

\* line 88 without its second disjunct
NeedsUpdateNewerOnly(version, site) == MoreRecentThanVersion(version, site)

\* line 88: the stored version has to be bumped
NeedsUpdate(version, site) ==
    \/ MoreRecentThanVersion(version, site)
    \/ EquivalentVersion(version, site) /\ version # site

\* the comparison of line 89 with its arguments exchanged
StartsRenameReversed(inprogress, site) ==
    ~inprogress /\ LessRecentThanVersion(RenameThreshold, site)

\* line 89: this invocation starts the rename migration
StartsRename(inprogress, site) ==
    ~inprogress /\ LessRecentThanVersion(site, RenameThreshold)

\* the rename phase entered whatever rename is
AfterVersionAlwaysRename(rename) == "copyMessaging"

\* line 116 / line 342: where the function goes once the version is settled
AfterVersion(rename) == IF rename THEN "copyMessaging" ELSE "updateRouter"

(***************************************************************************)
(* RouterUpdateVersionInNamespace(ctx, hup, namespace), lines 64-112.      *)
(***************************************************************************)
\* the caller invokes the function; Version is the library's version.  The
\* caller's flag hup is drawn where the function first reads it (line 365).
Start(version, faults) ==
    /\ inv.pc \in {"idle", "done"}
    /\ clock < MaxInvocations
    /\ faults => faulty < MaxFaultyInvocations
    /\ inv' = [IdleInv EXCEPT !.pc = "loadSite", !.Version = version,
                              !.faults = faults]
    /\ prev' = IF inv.pc = "idle" THEN prev
               ELSE IF inv.crashed \/ inv.err
               THEN [NoPrev EXCEPT !.outcome = "interrupted", !.at = inv.at]
               ELSE [NoPrev EXCEPT !.outcome = "ok", !.Version = inv.Version,
                                   !.hup = inv.hup]
    /\ log' = <<>>
    /\ clock' = clock + 1
    /\ faulty' = IF faults THEN faulty + 1 ELSE faulty
    /\ UNCHANGED <<store, peer>>

\* lines 65-79: read the site's version, refuse a site newer than the library
LoadSite ==
    /\ inv.pc = "loadSite"
    /\ inv' = IF SiteIsNewer(inv.Version, siteVersion)
              THEN [Returned(FALSE, TRUE) EXCEPT !.siteVersion = siteVersion]
              ELSE [inv EXCEPT !.pc = "isUpdating", !.siteVersion = siteVersion]
    /\ UNCHANGED <<store, log, Others>>

\* lines 80-88 with isUpdating (54-62): read the marker, decide rename
IsUpdating ==
    /\ inv.pc = "isUpdating"
    /\ LET inprogress == marker # NoMarker
           originalVersion == IF inprogress THEN marker[1] ELSE NoMarker
           rename == ResumedRename(inprogress, originalVersion)
       IN  inv' = [inv EXCEPT
                     !.inprogress = inprogress,
                     !.originalVersion = originalVersion,
                     !.rename = rename,
                     !.pc = IF NeedsUpdate(inv.Version, inv.siteVersion)
                            THEN IF StartsRename(inprogress, inv.siteVersion)
                                 THEN "updateStarted" ELSE "updateConfigMap"
                            ELSE AfterVersion(rename)]
    /\ UNCHANGED <<store, log, Others>>

\* lines 89-96 with the library's version passed to updateStarted as from
UpdateStartedFromLibrary ==
    /\ inv.pc = "updateStarted"
    /\ IF marker # NoMarker
       THEN /\ inv' = [Returned(FALSE, TRUE) EXCEPT !.rename = TRUE]
            /\ UNCHANGED <<marker, log>>
       ELSE /\ marker' = <<inv.Version>>
            /\ log' = Append(log, Req("create", "configmap", "skupper-update-state"))
            /\ inv' = [inv EXCEPT !.rename = TRUE, !.inprogress = TRUE,
                                  !.pc = "updateConfigMap"]
    /\ UNCHANGED <<routeClient, siteVersion, services, secrets, serviceAccounts,
                   roles, roleBindings, routes, deployments, Others>>

\* lines 89-96 with AlreadyExists passed over, as the copies of the rename do
UpdateStartedExistsIgnored ==
    /\ inv.pc = "updateStarted"
    /\ IF marker # NoMarker
       THEN UNCHANGED <<marker, log>>
       ELSE /\ marker' = <<inv.siteVersion>>
            /\ log' = Append(log, Req("create", "configmap", "skupper-update-state"))
    /\ inv' = [inv EXCEPT !.rename = TRUE, !.inprogress = TRUE,
                          !.pc = "updateConfigMap"]
    /\ UNCHANGED <<routeClient, siteVersion, services, secrets, serviceAccounts,
                   roles, roleBindings, routes, deployments, Others>>

\* lines 89-96 with updateStarted (29-48): create the marker
UpdateStarted ==
    /\ inv.pc = "updateStarted"
    /\ IF marker # NoMarker
       THEN \* Create answers AlreadyExists
            /\ inv' = [Returned(FALSE, TRUE) EXCEPT !.rename = TRUE]
            /\ UNCHANGED <<marker, log>>
       ELSE /\ marker' = <<inv.siteVersion>>
            /\ log' = Append(log, Req("create", "configmap", "skupper-update-state"))
            /\ inv' = [inv EXCEPT !.rename = TRUE, !.inprogress = TRUE,
                                  !.pc = "updateConfigMap"]
    /\ UNCHANGED <<routeClient, siteVersion, services, secrets, serviceAccounts,
                   roles, roleBindings, routes, deployments, Others>>

\* lines 98-111 without the assignment of line 101: the config map is written
\* back with the version it had
UpdateConfigMapStale ==
    /\ inv.pc = "updateConfigMap"
    /\ log' = Append(log, Req("update", "configmap", "skupper-internal"))
    /\ inv' = [inv EXCEPT !.updateSite = TRUE, !.pc = AfterVersion(inv.rename)]
    /\ UNCHANGED <<store, Others>>

\* lines 98-111: write the library's version into the site's config map.  The
\* Update carries the object read at line 65: the object store answers Conflict
\* when the config map was written since, and the function returns the error
UpdateConfigMap ==
    /\ inv.pc = "updateConfigMap"
    /\ IF siteVersion # inv.siteVersion
       THEN /\ inv' = Returned(FALSE, TRUE)
            /\ UNCHANGED <<siteVersion, log>>
       ELSE /\ siteVersion' = inv.Version
            /\ log' = Append(log, Req("update", "configmap", "skupper-internal"))
            /\ inv' = [inv EXCEPT !.updateSite = TRUE, !.pc = AfterVersion(inv.rename)]
    /\ UNCHANGED <<routeClient, marker, services, secrets, serviceAccounts,
                   roles, roleBindings, routes, deployments, Others>>

(***************************************************************************)
(* The rename phase, lines 116-340: services and CA secrets.               *)
(***************************************************************************)
\* kube.Copy*: skip when the current-named object exists, else copy the legacy one
CopyOutcome(names, src, dst) ==
    IF dst \in names THEN "AlreadyExists"
    ELSE IF src \notin names THEN "NotFound"
    ELSE "Created"

\* the service kube.CopyService creates from the original
CopiedService(original, cert) ==
    [type |-> original.type, host |-> "",
     cert |-> IF cert # "" THEN cert ELSE original.cert]

\* lines 119-126 and 130-136: kube.CopyService and the check of its error
CopyService(src, dst, cert, next) ==
    LET r == CopyOutcome(DOMAIN services, src, dst) IN
    /\ services' = IF r = "Created"
                   THEN Put(services, dst, CopiedService(services[src], cert))
                   ELSE services
    /\ log' = IF r = "Created" THEN Append(log, Req("create", "service", dst)) ELSE log
    /\ inv' = IF r = "NotFound" THEN Returned(FALSE, TRUE)
              ELSE [inv EXCEPT
                      !.pc = next,
                      !.consoleUsesLoadbalancer =
                          IF dst = ControllerServiceName /\ r = "Created"
                          THEN services[src].type = "LoadBalancer"
                          ELSE @]
    /\ UNCHANGED <<routeClient, siteVersion, marker, secrets, serviceAccounts,
                   roles, roleBindings, routes, deployments, Others>>

CopyMessagingService ==
    /\ inv.pc = "copyMessaging"
    /\ CopyService("skupper-messaging", LocalTransportServiceName, "", "copyInternal")

CopyInternalService ==
    /\ inv.pc = "copyInternal"
    /\ CopyService("skupper-internal", TransportServiceName, "", "copyController")

CopyControllerService ==
    /\ inv.pc = "copyController"
    /\ CopyService("skupper-controller", ControllerServiceName, OauthConsoleSecret,
                   "routerConsole")

\* lines 137-148: re-annotate skupper-router-console if the Get finds it
UpdateRouterConsole ==
    /\ inv.pc = "routerConsole"
    /\ \/ /\ RouterConsoleServiceName \in DOMAIN services
          /\ services' = [services EXCEPT
                            ![RouterConsoleServiceName].cert = OauthRouterConsoleSecret]
          /\ log' = Append(log, Req("update", "service", RouterConsoleServiceName))
       \/ /\ RouterConsoleServiceName \notin DOMAIN services
          /\ UNCHANGED <<services, log>>
    /\ inv' = At("copyLocalCa")
    /\ UNCHANGED <<routeClient, siteVersion, marker, secrets, serviceAccounts,
                   roles, roleBindings, routes, deployments, Others>>

\* lines 152-159 and 180-183: kube.CopySecret and the check of its error
CopySecret(src, dst, next) ==
    LET r == CopyOutcome(DOMAIN secrets, src, dst) IN
    /\ secrets' = IF r = "Created" THEN Put(secrets, dst, secrets[src]) ELSE secrets
    /\ log' = IF r = "Created" THEN Append(log, Req("create", "secret", dst)) ELSE log
    /\ inv' = IF r = "NotFound" THEN Returned(FALSE, TRUE) ELSE At(next)
    /\ UNCHANGED <<routeClient, siteVersion, marker, services, serviceAccounts,
                   roles, roleBindings, routes, deployments, Others>>

CopyLocalCa ==
    /\ inv.pc = "copyLocalCa"
    /\ CopySecret("skupper-ca", LocalCaSecret, "copySiteCa")

CopySiteCa ==
    /\ inv.pc = "copySiteCa"
    /\ CopySecret("skupper-internal-ca", SiteCaSecret, "usingRoutes")

(***************************************************************************)
(* Credentials, lines 160-217.                                             *)
(***************************************************************************)
Credential(ca, name, subject, hosts, connectJson) ==
    [CA |-> ca, Name |-> name, Subject |-> subject, Hosts |-> hosts,
     ConnectJson |-> connectJson]

\* lines 161-175 without the server credential of lines 162-168
LocalCredentialsClientOnly ==
    << Credential(LocalCaSecret, LocalClientSecret, LocalTransportServiceName,
                  <<>>, TRUE) >>

\* lines 161-175: the two local credentials
LocalCredentials ==
    << Credential(LocalCaSecret, LocalServerSecret, LocalTransportServiceName,
                  <<LocalTransportServiceName,
                    qualifiedServiceName(LocalTransportServiceName, Namespace)>>, FALSE),
       Credential(LocalCaSecret, LocalClientSecret, LocalTransportServiceName,
                  <<>>, TRUE) >>

\* a request whose error the function drops may be refused
MayIgnoreError == inv.faults /\ inv.ignored < MaxIgnoredErrors

\* usingRoutes (638-651) when the Get of the inter-router route answers
RoutesInUse == routeClient /\ InterRouterRouteName \in DOMAIN routes

\* lines 161-178 with the error of the lookup returned: return false, err
UsingRoutesFatal ==
    /\ inv.pc = "usingRoutes"
    /\ \/ inv' = [inv EXCEPT !.usingRoutes = RoutesInUse,
                              !.credentials = LocalCredentials,
                              !.pc = IF RoutesInUse THEN "copySiteServer"
                                     ELSE "getTransportHosts"]
       \/ /\ MayIgnoreError /\ routeClient
          /\ inv' = [Returned(FALSE, TRUE) EXCEPT !.credentials = LocalCredentials]
    /\ UNCHANGED <<store, log, Others>>

\* lines 161-178: build the local credentials, find out whether routes are in use;
\* an error of the lookup leaves usingRoutes false and is not looked at
UsingRoutes ==
    /\ inv.pc = "usingRoutes"
    /\ \/ inv' = [inv EXCEPT !.usingRoutes = RoutesInUse,
                              !.credentials = LocalCredentials,
                              !.pc = IF RoutesInUse THEN "copySiteServer"
                                     ELSE "getTransportHosts"]
       \/ \* the Get of the route is refused
          /\ MayIgnoreError /\ routeClient
          /\ inv' = [inv EXCEPT !.usingRoutes = FALSE, !.ignored = @ + 1,
                                !.credentials = LocalCredentials,
                                !.pc = "getTransportHosts"]
    /\ UNCHANGED <<store, log, Others>>

\* lines 179-183 with a freshly signed secret in place of the copy
CopySiteServerSigned ==
    /\ inv.pc = "copySiteServer"
    /\ secrets' = IF SiteServerSecret \in DOMAIN secrets THEN secrets
                  ELSE Put(secrets, SiteServerSecret,
                           Signed(SiteCaSecret, TransportServiceName, <<TransportServiceName>>))
    /\ log' = IF SiteServerSecret \in DOMAIN secrets THEN log
              ELSE Append(log, Req("create", "secret", SiteServerSecret))
    /\ inv' = At("newSecrets")
    /\ UNCHANGED <<routeClient, siteVersion, marker, services, serviceAccounts,
                   roles, roleBindings, routes, deployments, Others>>

\* lines 179-183: with routes the site server secret is a copy
CopySiteServer ==
    /\ inv.pc = "copySiteServer"
    /\ CopySecret("skupper-internal", SiteServerSecret, "newSecrets")

(***************************************************************************)
(* getTransportHosts, lines 653-684, and the site server credential.       *)
(***************************************************************************)
\* length a certificate subject must stay under (line 198)
SubjectLimit == 64

\* hosts net.ParseIP accepts
IPAddresses == {"10.0.0.1", "10.0.0.2"}
ParseIP(host) == host \in IPAddresses

\* kube.GetLoadBalancerHostOrIP
GetLoadBalancerHostOrIP(service) == service.host

\* lines 675-683 with the appends in another order: internal names first
TransportHostsInternalFirst(resolved, oldService) ==
    <<TransportServiceName,
      qualifiedServiceName(TransportServiceName, Namespace),
      qualifiedServiceName("skupper-internal", Namespace)>>
    \o resolved
    \o (IF GetLoadBalancerHostOrIP(oldService) # ""
        THEN <<GetLoadBalancerHostOrIP(oldService)>> ELSE <<>>)

\* lines 675-683: the host list, given what the loop resolved and the old service
TransportHosts(resolved, oldService) ==
    resolved
    \o (IF GetLoadBalancerHostOrIP(oldService) # ""
        THEN <<GetLoadBalancerHostOrIP(oldService)>> ELSE <<>>)
    \o <<TransportServiceName,
         qualifiedServiceName(TransportServiceName, Namespace),
         qualifiedServiceName("skupper-internal", Namespace)>>

\* lines 196-202 without the test of line 198: the first host, whatever its length
SubjectFirstHost(hosts) == IF hosts = <<>> THEN TransportServiceName ELSE hosts[1]

\* lines 196-202: the first host short enough, else the transport service name
Subject(hosts) ==
    LET short == {k \in 1..Len(hosts) : Len(hosts[k]) < SubjectLimit} IN
    IF short = {} THEN TransportServiceName
    ELSE hosts[CHOOSE k \in short : \A j \in short : k <= j]

\* lines 189-194 with every host looked at, not only hosts[0]
ExposedAsIpAnyHost(hosts) == \E k \in 1..Len(hosts) : ParseIP(hosts[k])

\* lines 189-194
ExposedAsIp(hosts) == Len(hosts) > 0 /\ ParseIP(hosts[1])

\* lines 185-210 once getTransportHosts has returned hosts
WithSiteServerCredential(hosts) ==
    [inv EXCEPT
       !.routerExposedAsIp = ExposedAsIp(hosts),
       !.credentials = Append(@, Credential(SiteCaSecret, SiteServerSecret,
                                            Subject(hosts), hosts, FALSE)),
       !.i = 1, !.pc = "newSecrets"]

\* lines 654-660: read the legacy transport service
GetTransportHosts ==
    /\ inv.pc = "getTransportHosts"
    /\ inv' = IF "skupper-internal" \notin DOMAIN services
              THEN Returned(FALSE, TRUE)
              ELSE IF services["skupper-internal"].type = "LoadBalancer"
              THEN [inv EXCEPT !.pc = "pollTransport", !.i = 0]
              ELSE WithSiteServerCredential(
                       TransportHosts(<<>>, services["skupper-internal"]))
    /\ UNCHANGED <<store, log, Others>>

\* lines 661 and 413: the number of lookups either loop makes at most
MaxAttempts == 120

\* lines 661-674 without the fall-through of line 661: running out of
\* attempts ends the function with an error
PollTransportHostFatal ==
    /\ inv.pc = "pollTransport"
    /\ inv' = IF TransportServiceName \notin DOMAIN services
              THEN Returned(FALSE, TRUE)
              ELSE LET host == GetLoadBalancerHostOrIP(services[TransportServiceName])
                   IN  IF host # ""
                       THEN WithSiteServerCredential(
                                TransportHosts(<<host>>, services["skupper-internal"]))
                       ELSE IF inv.i + 1 < MaxAttempts
                       THEN [inv EXCEPT !.i = @ + 1]
                       ELSE Returned(FALSE, TRUE)
    /\ UNCHANGED <<store, log, Others>>

\* lines 661-674: one turn of the loop waiting for the new service's host;
\* inv.i is the number of lookups made so far.  The loop is left with the
\* host the lookup finds, or without one after the lookup of the last turn
PollTransportHost ==
    /\ inv.pc = "pollTransport"
    /\ inv' = IF TransportServiceName \notin DOMAIN services
              THEN Returned(FALSE, TRUE)
              ELSE LET host == GetLoadBalancerHostOrIP(services[TransportServiceName])
                   IN  IF host # ""
                       THEN WithSiteServerCredential(
                                TransportHosts(<<host>>, services["skupper-internal"]))
                       ELSE IF inv.i + 1 < MaxAttempts
                       THEN [inv EXCEPT !.i = @ + 1]
                       ELSE WithSiteServerCredential(
                                TransportHosts(<<>>, services["skupper-internal"]))
    /\ UNCHANGED <<store, log, Others>>

\* the cluster's load balancer gives the polled service its host
AssignLoadBalancerHost ==
    /\ inv.pc \in {"pollTransport", "pollConsole"}
    /\ LET name == IF inv.pc = "pollTransport" THEN TransportServiceName
                   ELSE ControllerServiceName
       IN  /\ name \in DOMAIN services
           /\ services[name].type = "LoadBalancer"
           /\ services[name].host = ""
           /\ \E host \in LoadBalancerHosts(name) :
                 services' = [services EXCEPT ![name].host = host]
    /\ UNCHANGED <<routeClient, siteVersion, marker, secrets, serviceAccounts,
                   roles, roleBindings, routes, deployments, inv, log, Others>>

(***************************************************************************)
(* kube.NewSecret for every credential, lines 211-217; its result is       *)
(* dropped.                                                                *)
(***************************************************************************)
\* the credential is refused before the certificate authority is asked
Rejected(cred) == ~cred.ConnectJson /\ cred.Hosts = <<>>

\* the secret the certificate authority signs for the credential
Issued(cred) ==
    [ca |-> cred.CA, subject |-> cred.Subject, hosts |-> cred.Hosts,
     connectJson |-> cred.ConnectJson]

\* the loop over the credentials left for the services again
NextCredentialThenServices(l) ==
    IF l.i < Len(l.credentials) THEN [l EXCEPT !.i = @ + 1]
    ELSE [l EXCEPT !.i = 1, !.pc = "routerConsole"]

\* the loop goes on to the next credential, or is left
NextCredential(l) ==
    IF l.i < Len(l.credentials) THEN [l EXCEPT !.i = @ + 1]
    ELSE [l EXCEPT !.i = 1, !.pc = "copyTransportSA"]

NewSecrets ==
    /\ inv.pc = "newSecrets"
    /\ LET cred == inv.credentials[inv.i] IN
       \/ /\ ~Rejected(cred) /\ cred.CA \in DOMAIN secrets
          /\ IF cred.Name \in DOMAIN secrets
             THEN /\ log' = Append(log, Req("issue", "secret", cred.Name))
                  /\ UNCHANGED secrets
             ELSE /\ log' = log \o << Req("issue", "secret", cred.Name),
                                      Req("create", "secret", cred.Name) >>
                  /\ secrets' = Put(secrets, cred.Name, Issued(cred))
          /\ inv' = NextCredential(inv)
       \/ /\ Rejected(cred) \/ cred.CA \notin DOMAIN secrets
          /\ UNCHANGED <<secrets, log>>
          /\ inv' = NextCredential(inv)
       \/ \* a request of kube.NewSecret is refused: the error is dropped
          /\ MayIgnoreError
          /\ log' = Append(log, Req("refused", "secret", cred.Name))
          /\ UNCHANGED secrets
          /\ inv' = NextCredential([inv EXCEPT !.ignored = @ + 1])
    /\ UNCHANGED <<routeClient, siteVersion, marker, services, serviceAccounts,
                   roles, roleBindings, routes, deployments, Others>>

(***************************************************************************)
(* Service accounts, roles, role bindings and routes, lines 219-340.       *)
(***************************************************************************)
\* lines 220-230: kube.CopyServiceAccount and the check of its error
CopyServiceAccount(src, dst, next) ==
    LET r == CopyOutcome(serviceAccounts, src, dst) IN
    /\ serviceAccounts' = IF r = "Created" THEN serviceAccounts \cup {dst}
                          ELSE serviceAccounts
    /\ log' = IF r = "Created" THEN Append(log, Req("create", "serviceaccount", dst))
              ELSE log
    /\ inv' = IF r = "NotFound" THEN Returned(FALSE, TRUE) ELSE At(next)
    /\ UNCHANGED <<routeClient, siteVersion, marker, services, secrets,
                   roles, roleBindings, routes, deployments, Others>>

CopyTransportServiceAccount ==
    /\ inv.pc = "copyTransportSA"
    /\ CopyServiceAccount("skupper", TransportServiceAccountName, "copyControllerSA")

CopyControllerServiceAccount ==
    /\ inv.pc = "copyControllerSA"
    /\ CopyServiceAccount("skupper-proxy-controller", ControllerServiceAccountName,
                          "createControllerRole")

\* lines 233-247: kube.CreateRole; AlreadyExists is passed over
CreateControllerRole ==
    /\ inv.pc = "createControllerRole"
    /\ IF ControllerRoleName \in roles
       THEN UNCHANGED <<roles, log>>
       ELSE /\ roles' = roles \cup {ControllerRoleName}
            /\ log' = Append(log, Req("create", "role", ControllerRoleName))
    /\ inv' = At("copyTransportRole")
    /\ UNCHANGED <<routeClient, siteVersion, marker, services, secrets,
                   serviceAccounts, roleBindings, routes, deployments, Others>>

\* the cleanup entered right after the rename phase, before the deployments
AfterRoleBindingsToCleanup == IF routeClient THEN "consoleRoute" ELSE "deleteServices"

\* where the function goes after the role bindings (line 300)
AfterRoleBindings == IF routeClient THEN "consoleRoute" ELSE "updateRouter"

\* lines 249-252: kube.CopyRole and the check of its error
CopyTransportRole ==
    /\ inv.pc = "copyTransportRole"
    /\ LET r == CopyOutcome(roles, "skupper-view", TransportRoleName) IN
       /\ roles' = IF r = "Created" THEN roles \cup {TransportRoleName} ELSE roles
       /\ log' = IF r = "Created"
                 THEN Append(log, Req("create", "role", TransportRoleName)) ELSE log
       /\ inv' = IF r = "NotFound" THEN Returned(FALSE, TRUE)
                 ELSE [inv EXCEPT !.pc = "createRoleBindings", !.i = 1]
    /\ UNCHANGED <<routeClient, siteVersion, marker, services, secrets,
                   serviceAccounts, roleBindings, routes, deployments, Others>>

\* lines 255-292
NewRoleBindings == <<ControllerRoleBindingName, TransportRoleBindingName>>

\* lines 293-298: one turn of the loop over the role bindings
CreateRoleBindings ==
    /\ inv.pc = "createRoleBindings"
    /\ LET name == NewRoleBindings[inv.i] IN
       IF name \in roleBindings
       THEN UNCHANGED <<roleBindings, log>>
       ELSE /\ roleBindings' = roleBindings \cup {name}
            /\ log' = Append(log, Req("create", "rolebinding", name))
    /\ inv' = IF inv.i < Len(NewRoleBindings)
              THEN [inv EXCEPT !.i = @ + 1]
              ELSE [inv EXCEPT !.i = 1, !.pc = AfterRoleBindings]
    /\ UNCHANGED <<routeClient, siteVersion, marker, services, secrets,
                   serviceAccounts, roles, routes, deployments, Others>>

\* lines 300-329: the console route skupper-controller is re-created as skupper
CreateConsoleRoute ==
    /\ inv.pc = "consoleRoute"
    /\ IF "skupper-controller" \in DOMAIN routes /\ ConsoleRouteName \notin DOMAIN routes
       THEN /\ routes' = Put(routes, ConsoleRouteName, ControllerServiceName)
            /\ log' = Append(log, Req("create", "route", ConsoleRouteName))
       ELSE UNCHANGED <<routes, log>>
    /\ inv' = At("edgeRoute")
    /\ UNCHANGED <<routeClient, siteVersion, marker, services, secrets,
                   serviceAccounts, roles, roleBindings, deployments, Others>>

\* lines 331-338: kube.UpdateTargetServiceForRoute and the check of its error
UpdateTargetServiceForRoute(name, service, next) ==
    /\ IF name \in DOMAIN routes
       THEN /\ routes' = [routes EXCEPT ![name] = service]
            /\ log' = Append(log, Req("update", "route", name))
            /\ inv' = At(next)
       ELSE /\ inv' = Returned(FALSE, TRUE)
            /\ UNCHANGED <<routes, log>>
    /\ UNCHANGED <<routeClient, siteVersion, marker, services, secrets,
                   serviceAccounts, roles, roleBindings, deployments, Others>>

UpdateEdgeRoute ==
    /\ inv.pc = "edgeRoute"
    /\ UpdateTargetServiceForRoute(EdgeRouteName, TransportServiceName, "interRouterRoute")

UpdateInterRouterRoute ==
    /\ inv.pc = "interRouterRoute"
    /\ UpdateTargetServiceForRoute(InterRouterRouteName, TransportServiceName,
                                   "updateRouter")

(***************************************************************************)
(* The two deployments, lines 342-428.                                     *)
(***************************************************************************)
\* kube.UpdateSecretVolume: the volume of the old secret now mounts the new one
UpdateSecretVolume(spec, oldname, name) ==
    [spec EXCEPT !.volumes = IF oldname \in @ THEN (@ \ {oldname}) \cup {name} ELSE @]

\* lines 628-636: the oauth-proxy sidecar, if there is one, gets the account
updateOauthProxyServiceAccount(spec, name) ==
    [spec EXCEPT !.oauth = IF @ # "" THEN name ELSE @]

\* touch that leaves the annotation as it was
NoTouch(deployment) == deployment

\* lines 620-626: the annotation takes the current time
touch(deployment) == [deployment EXCEPT !.updated = clock]

\* lines 347-359: the router deployment repointed to the current names
RenamedRouter(router) ==
    updateOauthProxyServiceAccount(
        UpdateSecretVolume(
            UpdateSecretVolume(
                UpdateSecretVolume(
                    [router EXCEPT !.serviceAccountName = TransportServiceAccountName],
                    "skupper-amqps", LocalServerSecret),
                "skupper-internal", SiteServerSecret),
            "skupper-proxy-certs", OauthRouterConsoleSecret),
        TransportServiceAccountName)

\* lines 385-395: the controller deployment repointed to the current names
RenamedController(controller) ==
    updateOauthProxyServiceAccount(
        UpdateSecretVolume(
            UpdateSecretVolume(
                [controller EXCEPT !.serviceAccountName = ControllerServiceAccountName],
                "skupper", LocalClientSecret),
            "skupper-controller-certs", OauthConsoleSecret),
        ControllerServiceAccountName)

\* the router deployment written on every invocation
RouterAlwaysWritten(updateRouter, updateSite, hup) == TRUE

\* line 365: the router deployment is written
RouterNeedsUpdate(updateRouter, updateSite, hup) == updateRouter \/ updateSite \/ hup

\* line 401 without hup
ControllerOnImageOnly(updateController, hup) == updateController

\* line 401: the controller deployment is written
ControllerNeedsUpdate(updateController, hup) == updateController \/ hup

\* the cleanup of lines 429-499 left out
AfterWorkloadsNoCleanup(rename, inprogress) ==
    IF inprogress THEN "updateCompleted" ELSE "return"

\* line 429 and line 500: what follows the deployments
AfterCleanup(inprogress) == IF inprogress THEN "updateCompleted" ELSE "return"
AfterWorkloads(rename, inprogress) ==
    IF rename THEN (IF routeClient THEN "deleteRoute" ELSE "deleteServices")
    ELSE AfterCleanup(inprogress)

\* line 506 with the deployments left out of the result
LeaveSiteOnly(l, next) ==
    IF next = "return"
    THEN [l EXCEPT !.pc = "done", !.at = "return", !.err = FALSE,
                   !.ret = l.updateSite]
    ELSE [l EXCEPT !.pc = next]

\* line 506: the locals l at position next, or after the final return
Leave(l, next) ==
    IF next = "return"
    THEN [l EXCEPT !.pc = "done", !.at = "return", !.err = FALSE,
                   !.ret = l.updateRouter \/ l.updateController \/ l.updateSite]
    ELSE [l EXCEPT !.pc = next]

\* lines 342-378
UpdateRouterDeployment(hup) ==
    /\ inv.pc = "updateRouter"
    /\ LET router == deployments[TransportDeploymentName]
           renamed == IF inv.rename THEN RenamedRouter(router) ELSE router
           desiredRouterImage == GetRouterImageName(inv.Version)
           updateRouter == inv.rename \/ router.image # desiredRouterImage
           patched == [renamed EXCEPT !.image = desiredRouterImage]
       IN  IF RouterNeedsUpdate(updateRouter, inv.updateSite, hup)
           THEN /\ deployments' = [deployments EXCEPT ![TransportDeploymentName] =
                                      IF updateRouter THEN patched ELSE touch(patched)]
                /\ log' = Append(log, Req("update", "deployment", TransportDeploymentName))
                           \o (IF inv.routerExposedAsIp
                               THEN <<Req("print", "warning", "new tokens required")>>
                               ELSE <<>>)
                /\ inv' = [inv EXCEPT !.updateRouter = TRUE, !.hup = hup,
                                      !.pc = "updateController"]
           ELSE /\ inv' = [inv EXCEPT !.hup = hup, !.pc = "updateController"]
                /\ UNCHANGED <<deployments, log>>
    /\ UNCHANGED <<routeClient, siteVersion, marker, services, secrets,
                   serviceAccounts, roles, roleBindings, routes, Others>>

\* lines 380-410
UpdateControllerDeployment ==
    /\ inv.pc = "updateController"
    /\ LET controller == deployments[ControllerDeploymentName]
           renamed == IF inv.rename THEN RenamedController(controller) ELSE controller
           desiredControllerImage == GetServiceControllerImageName(inv.Version)
           updateController == inv.rename \/ controller.image # desiredControllerImage
           patched == [renamed EXCEPT !.image = desiredControllerImage]
       IN  IF ControllerNeedsUpdate(updateController, inv.hup)
           THEN /\ deployments' = [deployments EXCEPT ![ControllerDeploymentName] =
                                      IF updateController THEN patched ELSE touch(patched)]
                /\ log' = Append(log, Req("update", "deployment", ControllerDeploymentName))
                /\ inv' = IF inv.consoleUsesLoadbalancer
                          THEN [inv EXCEPT !.updateController = TRUE,
                                           !.pc = "pollConsole", !.i = 0]
                          ELSE Leave([inv EXCEPT !.updateController = TRUE],
                                     AfterWorkloads(inv.rename, inv.inprogress))
           ELSE /\ inv' = Leave(inv, AfterWorkloads(inv.rename, inv.inprogress))
                /\ UNCHANGED <<deployments, log>>
    /\ UNCHANGED <<routeClient, siteVersion, marker, services, secrets,
                   serviceAccounts, roles, roleBindings, routes, Others>>

\* lines 411-427: one turn of the loop waiting for the console's host; inv.i
\* is the number of lookups made so far.  A lookup that fails ends the loop
\* (line 420); the address is printed if a lookup found one (line 425)
PollConsoleHost ==
    /\ inv.pc = "pollConsole"
    /\ LET found == ControllerServiceName \in DOMAIN services
           host == IF found THEN GetLoadBalancerHostOrIP(services[ControllerServiceName])
                   ELSE ""
       IN  IF found /\ host = "" /\ inv.i + 1 < MaxAttempts
           THEN /\ inv' = [inv EXCEPT !.i = @ + 1]
                /\ UNCHANGED log
           ELSE /\ log' = IF host # "" THEN Append(log, Req("print", "console", host))
                          ELSE log
                /\ inv' = Leave([inv EXCEPT !.i = 1],
                                AfterWorkloads(inv.rename, inv.inprogress))
    /\ UNCHANGED <<store, Others>>

(***************************************************************************)
(* Cleanup of the legacy objects, lines 429-499.  A delete of an object    *)
(* that is not there answers NotFound, which is passed over.               *)
(***************************************************************************)
\* lines 431-436
DeleteLegacyRoute ==
    /\ inv.pc = "deleteRoute"
    /\ IF "skupper-controller" \in DOMAIN routes
       THEN /\ routes' = Remove(routes, "skupper-controller")
            /\ log' = Append(log, Req("delete", "route", "skupper-controller"))
       ELSE UNCHANGED <<routes, log>>
    /\ inv' = [inv EXCEPT !.i = 1, !.pc = "deleteServices"]
    /\ UNCHANGED <<routeClient, siteVersion, marker, services, secrets,
                   serviceAccounts, roles, roleBindings, deployments, Others>>

\* the condition of line 442 negated
LegacyServicesRetainedWithRoutes(usingRoutes) ==
    <<"skupper-messaging", "skupper-controller">>
    \o (IF usingRoutes THEN <<>> ELSE <<"skupper-internal">>)

\* lines 438-447: the legacy services to delete
LegacyServicesToDelete(usingRoutes) ==
    <<"skupper-messaging", "skupper-controller">>
    \o (IF usingRoutes THEN <<"skupper-internal">> ELSE <<>>)

\* lines 448-453: one turn of the loop
DeleteLegacyServices ==
    /\ inv.pc = "deleteServices"
    /\ LET list == LegacyServicesToDelete(inv.usingRoutes)
           name == list[inv.i]
       IN  /\ IF name \in DOMAIN services
              THEN /\ services' = Remove(services, name)
                   /\ log' = Append(log, Req("delete", "service", name))
              ELSE UNCHANGED <<services, log>>
           /\ inv' = IF inv.i < Len(list) THEN [inv EXCEPT !.i = @ + 1]
                     ELSE [inv EXCEPT !.i = 1, !.pc = "deleteSecrets"]
    /\ UNCHANGED <<routeClient, siteVersion, marker, secrets, serviceAccounts,
                   roles, roleBindings, routes, deployments, Others>>

\* lines 455-461
LegacySecretsToDelete ==
    <<"skupper", "skupper-amqps", "skupper-ca", "skupper-internal", "skupper-internal-ca">>

\* lines 462-467: one turn of the loop
DeleteLegacySecrets ==
    /\ inv.pc = "deleteSecrets"
    /\ LET name == LegacySecretsToDelete[inv.i] IN
       /\ IF name \in DOMAIN secrets
          THEN /\ secrets' = Remove(secrets, name)
               /\ log' = Append(log, Req("delete", "secret", name))
          ELSE UNCHANGED <<secrets, log>>
       /\ inv' = IF inv.i < Len(LegacySecretsToDelete) THEN [inv EXCEPT !.i = @ + 1]
                 ELSE [inv EXCEPT !.i = 1, !.pc = "deleteRoleBindings"]
    /\ UNCHANGED <<routeClient, siteVersion, marker, services, serviceAccounts,
                   roles, roleBindings, routes, deployments, Others>>

\* a turn of a loop deleting the names of list from the set objects
DeleteFromSet(objects, kind, list, next) ==
    LET name == list[inv.i] IN
    /\ objects' = objects \ {name}
    /\ log' = IF name \in objects THEN Append(log, Req("delete", kind, name)) ELSE log
    /\ inv' = IF inv.i < Len(list) THEN [inv EXCEPT !.i = @ + 1]
              ELSE Leave([inv EXCEPT !.i = 1], next)

\* lines 469-478
DeleteLegacyRoleBindings ==
    /\ inv.pc = "deleteRoleBindings"
    /\ DeleteFromSet(roleBindings, "rolebinding",
                     <<"skupper-proxy-controller-skupper-edit", "skupper-skupper-view">>,
                     "deleteServiceAccounts")
    /\ UNCHANGED <<routeClient, siteVersion, marker, services, secrets,
                   serviceAccounts, roles, routes, deployments, Others>>

\* lines 479-488
DeleteLegacyServiceAccounts ==
    /\ inv.pc = "deleteServiceAccounts"
    /\ DeleteFromSet(serviceAccounts, "serviceaccount",
                     <<"skupper", "skupper-proxy-controller">>, "deleteRoles")
    /\ UNCHANGED <<routeClient, siteVersion, marker, services, secrets,
                   roles, roleBindings, routes, deployments, Others>>

\* lines 489-499
DeleteLegacyRoles ==
    /\ inv.pc = "deleteRoles"
    /\ DeleteFromSet(roles, "role", <<"skupper-edit", "skupper-view">>,
                     AfterCleanup(inv.inprogress))
    /\ UNCHANGED <<routeClient, siteVersion, marker, services, secrets,
                   serviceAccounts, roleBindings, routes, deployments, Others>>

(***************************************************************************)
(* The end of the function, lines 500-506, with updateCompleted (50-52).   *)
(***************************************************************************)
UpdateCompleted ==
    /\ inv.pc = "updateCompleted"
    /\ \/ /\ marker # NoMarker
          /\ marker' = NoMarker
          /\ log' = Append(log, Req("delete", "configmap", "skupper-update-state"))
          /\ inv' = Leave(inv, "return")
       \/ \* the delete fails: the function returns true with the error
          /\ marker = NoMarker \/ inv.faults
          /\ inv' = Returned(TRUE, TRUE)
          /\ UNCHANGED <<marker, log>>
    /\ UNCHANGED <<routeClient, siteVersion, services, secrets, serviceAccounts,
                   roles, roleBindings, routes, deployments, Others>>

(***************************************************************************)
(* Failures.                                                               *)
(***************************************************************************)
\* positions whose request, when the object store refuses it with an error
\* that is neither NotFound nor AlreadyExists, ends the function: return false, err
AbortingRequests ==
    {"loadSite", "isUpdating", "updateStarted", "updateConfigMap",
     "copyMessaging", "copyInternal", "copyController", "copyLocalCa", "copySiteCa",
     "copySiteServer", "getTransportHosts", "pollTransport",
     "copyTransportSA", "copyControllerSA", "createControllerRole",
     "copyTransportRole", "createRoleBindings",
     "consoleRoute", "edgeRoute", "interRouterRoute",
     "updateRouter", "updateController",
     "deleteRoute", "deleteServices", "deleteSecrets", "deleteRoleBindings",
     "deleteServiceAccounts", "deleteRoles"}

\* the error return taken at a refused request
Abort == Returned(FALSE, TRUE)

RequestFails ==
    /\ inv.faults
    /\ \/ inv.pc \in AbortingRequests
       \/ inv.pc = "routerConsole" /\ RouterConsoleServiceName \in DOMAIN services
    /\ inv' = Abort
    /\ UNCHANGED <<store, log, Others>>

\* the process running the function is killed
Crash ==
    /\ inv.faults
    /\ inv.pc \notin {"idle", "done"}
    /\ inv' = [inv EXCEPT !.pc = "done", !.crashed = TRUE, !.at = inv.pc, !.i = 1]
    /\ UNCHANGED <<store, log, Others>>

Next ==
    \/ \E version \in LibraryVersions, faults \in BOOLEAN :
          Start(version, faults)
    \/ LoadSite
    \/ IsUpdating
    \/ UpdateStarted
    \/ UpdateConfigMap
    \/ CopyMessagingService
    \/ CopyInternalService
    \/ CopyControllerService
    \/ UpdateRouterConsole
    \/ CopyLocalCa
    \/ CopySiteCa
    \/ UsingRoutes
    \/ CopySiteServer
    \/ GetTransportHosts
    \/ PollTransportHost
    \/ AssignLoadBalancerHost
    \/ NewSecrets
    \/ CopyTransportServiceAccount
    \/ CopyControllerServiceAccount
    \/ CreateControllerRole
    \/ CopyTransportRole
    \/ CreateRoleBindings
    \/ CreateConsoleRoute
    \/ UpdateEdgeRoute
    \/ UpdateInterRouterRoute
    \/ \E hup \in BOOLEAN : UpdateRouterDeployment(hup)
    \/ UpdateControllerDeployment
    \/ PollConsoleHost
    \/ DeleteLegacyRoute
    \/ DeleteLegacyServices
    \/ DeleteLegacySecrets
    \/ DeleteLegacyRoleBindings
    \/ DeleteLegacyServiceAccounts
    \/ DeleteLegacyRoles
    \/ UpdateCompleted
    \/ RequestFails
    \/ Crash

Spec == Init /\ [][Next]_vars

(***************************************************************************)
(* Two overlapping invocations.  The function takes no lock (the marker is *)
(* its only signal), so a second caller may run it while the first is      *)
(* between two requests.  One invocation runs on inv and log, the other    *)
(* waits in peer; Switch hands the processor over.  The sites are those    *)
(* the rename is for, older than 0.5.0, that no load balancer exposes, so  *)
(* that neither waiting loop is entered.                                   *)
(***************************************************************************)
InitConcurrent ==
    /\ Init
    /\ LessRecentThanVersion(siteVersion, RenameThreshold)
    /\ \A name \in DOMAIN services : services[name].type # "LoadBalancer"

Switch ==
    /\ inv.pc # "idle"
    /\ peer.inv.pc # "done"
    /\ peer.switches < MaxSwitches
    /\ inv' = peer.inv
    /\ log' = peer.log
    /\ peer' = [inv |-> inv, log |-> log, switches |-> peer.switches + 1]
    /\ UNCHANGED <<store, clock, faulty, prev>>

NextConcurrent ==
    \/ \E version \in LibraryVersions : Start(version, FALSE)
    \/ Switch
    \/ LoadSite
    \/ IsUpdating
    \/ UpdateStarted
    \/ UpdateConfigMap
    \/ CopyMessagingService
    \/ CopyInternalService
    \/ CopyControllerService
    \/ UpdateRouterConsole
    \/ CopyLocalCa
    \/ CopySiteCa
    \/ UsingRoutes
    \/ CopySiteServer
    \/ GetTransportHosts
    \/ NewSecrets
    \/ CopyTransportServiceAccount
    \/ CopyControllerServiceAccount
    \/ CreateControllerRole
    \/ CopyTransportRole
    \/ CreateRoleBindings
    \/ CreateConsoleRoute
    \/ UpdateEdgeRoute
    \/ UpdateInterRouterRoute
    \/ \E hup \in BOOLEAN : UpdateRouterDeployment(hup)
    \/ UpdateControllerDeployment
    \/ DeleteLegacyRoute
    \/ DeleteLegacyServices
    \/ DeleteLegacySecrets
    \/ DeleteLegacyRoleBindings
    \/ DeleteLegacyServiceAccounts
    \/ DeleteLegacyRoles
    \/ UpdateCompleted

SpecConcurrent == InitConcurrent /\ [][NextConcurrent]_vars

(***************************************************************************)
(* Vocabulary of the properties.                                           *)
(***************************************************************************)
MarkerCreate == Req("create", "configmap", "skupper-update-state")
IsWrite(e) == e.op \in {"create", "update", "delete"}
HasWrite == \E k \in 1..Len(log) : IsWrite(log[k])
InLog(e) == \E k \in 1..Len(log) : log[k] = e

\* the invocation has returned (it was not killed)
ReturnedOk == inv.pc = "done" /\ ~inv.crashed /\ ~inv.err
ReturnedError == inv.pc = "done" /\ ~inv.crashed /\ inv.err

\* the invocation found the marker when it looked for it
FoundMarker == inv.originalVersion # NoMarker

\* the library version is equivalent to, and differs from, the version read
EquivalentDistinct ==
    EquivalentVersion(inv.Version, inv.siteVersion) /\ inv.Version # inv.siteVersion

VersionPositions == {"idle", "loadSite", "isUpdating", "updateStarted", "updateConfigMap"}
CleanupPositions == {"deleteRoute", "deleteServices", "deleteSecrets",
                     "deleteRoleBindings", "deleteServiceAccounts", "deleteRoles"}

\* every legacy object the cleanup of this invocation is to delete is gone
LegacyDeleted ==
    /\ "skupper-controller" \notin DOMAIN routes
    /\ \A k \in 1..Len(LegacyServicesToDelete(inv.usingRoutes)) :
          LegacyServicesToDelete(inv.usingRoutes)[k] \notin DOMAIN services
    /\ \A k \in 1..Len(LegacySecretsToDelete) :
          LegacySecretsToDelete[k] \notin DOMAIN secrets
    /\ roleBindings \cap {"skupper-proxy-controller-skupper-edit", "skupper-skupper-view"} = {}
    /\ serviceAccounts \cap {"skupper", "skupper-proxy-controller"} = {}
    /\ roles \cap {"skupper-edit", "skupper-view"} = {}

(***************************************************************************)
(* C1: an invocation that finds the stored site version more recent than   *)
(* the library's Version returns an error and has written nothing: it ends *)
(* at once, with an empty log.                                             *)
(***************************************************************************)
C1_NewerSiteRefused ==
    (inv.pc \notin {"idle", "loadSite"} /\ LessRecentThanVersion(inv.Version, siteVersion))
    => /\ inv.pc = "done"
       /\ log = <<>>
       /\ ~inv.crashed => (inv.err /\ ~inv.ret)

C1_Witness ==
    /\ ReturnedError /\ ~inv.faults
    /\ LessRecentThanVersion(inv.Version, siteVersion)
    /\ inv.at = "loadSite"

(***************************************************************************)
(* C2: in an invocation that starts the rename migration (no marker, the   *)
(* stored version older than 0.5.0, the library newer or equivalent and    *)
(* distinct) the first write is the creation of the marker, and when that  *)
(* creation fails nothing is written.                                      *)
(***************************************************************************)
StartsMigration ==
    /\ ~FoundMarker
    /\ LessRecentThanVersion(inv.siteVersion, RenameThreshold)
    /\ NeedsUpdate(inv.Version, inv.siteVersion)

C2_MarkerFirst ==
    /\ (StartsMigration /\ HasWrite) => log[1] = MarkerCreate
    /\ (inv.pc = "done" /\ inv.at = "updateStarted") => ~HasWrite

C2_Witness ==
    /\ StartsMigration
    /\ Len(log) >= 3
    /\ log[1] = MarkerCreate
    /\ log[2] = Req("update", "configmap", "skupper-internal")

(***************************************************************************)
(* C3: the marker is deleted only by the last step of an invocation, after *)
(* the rename phase, the deployments and the cleanup went through: the     *)
(* deployments are repointed and the legacy objects are gone when it goes. *)
(* An invocation that saw or created the marker and ends in an error (or   *)
(* is killed) leaves the marker in place.                                  *)
(***************************************************************************)
C3_MarkerDeletedLast ==
    [][ /\ (marker # NoMarker /\ marker' = NoMarker) =>
              /\ inv.pc = "updateCompleted"
              /\ inv'.pc = "done" /\ ~inv'.err /\ ~inv'.crashed
              /\ inv.rename =>
                    /\ LegacyDeleted
                    /\ deployments[TransportDeploymentName].serviceAccountName
                          = TransportServiceAccountName
                    /\ deployments[ControllerDeploymentName].serviceAccountName
                          = ControllerServiceAccountName
        /\ (inv'.pc = "done" /\ (inv'.err \/ inv'.crashed) /\ inv'.inprogress) =>
              marker' # NoMarker
      ]_vars

C3_Witness ==
    /\ ReturnedOk /\ inv.inprogress /\ inv.rename
    /\ marker = NoMarker
    /\ log # <<>>
    /\ log[Len(log)] = Req("delete", "configmap", "skupper-update-state")

(***************************************************************************)
(* C4 as stated: an invocation that follows a successful one with the same *)
(* library version (and the same hup) sends no write and returns false     *)
(* without error.                                                          *)
(***************************************************************************)
SameAgain ==
    /\ inv.pc = "done" /\ ~inv.crashed /\ ~inv.faults
    /\ prev.outcome = "ok"
    /\ prev.Version = inv.Version

C4_Original ==
    (SameAgain /\ prev.hup = inv.hup) => (~HasWrite /\ ~inv.ret /\ ~inv.err)

(***************************************************************************)
(* C4 amended: an invocation with hup false that follows a successful one  *)
(* with the same library version sends no request that changes the site,   *)
(* and returns false without error.                                        *)
(***************************************************************************)
C4_IdempotentWithoutHup ==
    (SameAgain /\ ~inv.hup) => (log = <<>> /\ ~inv.ret /\ ~inv.err)

C4_Witness ==
    /\ SameAgain /\ ~inv.hup
    /\ inv.at = "return"
    /\ inv.Version = V060 /\ siteVersion = V060
    /\ TransportServiceAccountName \in serviceAccounts
    /\ log = <<>> /\ ~inv.ret

(***************************************************************************)
(* C5: an invocation that resumes after the previous one went through the  *)
(* rename phase and stopped at the deployments issues no credential whose  *)
(* secret is already there, and completes: no error, no marker left.       *)
(***************************************************************************)
ReIssued ==
    \E k \in 1..Len(log) :
        /\ log[k].op = "issue"
        /\ ~InLog(Req("create", "secret", log[k].name))

C5_ResumeIssuesNothing ==
    ( /\ inv.pc = "done" /\ ~inv.crashed /\ ~inv.faults
      /\ prev.outcome = "interrupted"
      /\ prev.at \in {"updateRouter", "updateController", "pollConsole"}
      /\ inv.rename )
    => (~ReIssued /\ ~inv.err /\ marker = NoMarker)

(***************************************************************************)
(* C6: an invocation that finds the marker and meets no failure of its own *)
(* returns without error and leaves no marker, wherever the earlier        *)
(* invocation was interrupted.                                             *)
(***************************************************************************)
C6_ResumptionConverges ==
    (inv.pc = "done" /\ ~inv.crashed /\ ~inv.faults /\ FoundMarker)
    => (~inv.err /\ marker = NoMarker)

(***************************************************************************)
(* C7 as stated: whenever the library version is equivalent to the stored  *)
(* version and differs from it, the invocation, once past the version      *)
(* step, has rewritten the stored version and has not set rename.          *)
(***************************************************************************)
PastVersionStep ==
    /\ inv.pc \notin VersionPositions
    /\ inv.pc = "done" => inv.at \notin VersionPositions

C7_Original ==
    (PastVersionStep /\ EquivalentDistinct)
    => (siteVersion = inv.Version /\ ~inv.rename)

(***************************************************************************)
(* C7 amended: when the library version is equivalent to the stored        *)
(* version and differs from it, the stored version is rewritten to the     *)
(* library's; and rename is not set, nothing is created, issued or         *)
(* deleted, provided the invocation finds no marker of an original version *)
(* older than 0.5.0 and the stored version is not older than 0.5.0.        *)
(***************************************************************************)
NoRenameCause ==
    /\ ~(FoundMarker /\ LessRecentThanVersion(inv.originalVersion, RenameThreshold))
    /\ ~LessRecentThanVersion(inv.siteVersion, RenameThreshold)

C7_EquivalentBumpsOnly ==
    (PastVersionStep /\ EquivalentDistinct)
    => /\ siteVersion = inv.Version
       /\ inv.updateSite
       /\ InLog(Req("update", "configmap", "skupper-internal"))
       /\ NoRenameCause =>
             /\ ~inv.rename
             /\ \A k \in 1..Len(log) : log[k].op = "update"

C7_Witness ==
    /\ ReturnedOk /\ EquivalentDistinct /\ NoRenameCause
    /\ inv.siteVersion = V060rc1 /\ siteVersion = V060
    /\ ~inv.rename
    /\ InLog(Req("update", "deployment", TransportDeploymentName))

(***************************************************************************)
(* C8: rename does not change once the version step is over; and while it  *)
(* is false the invocation only updates the site's config map and the two  *)
(* deployments: it creates, issues and deletes nothing, leaves services,   *)
(* secrets, accounts, roles, bindings and routes as they are, and leaves   *)
(* the deployments' service account, volumes and sidecar account alone,    *)
(* whatever the images.                                                    *)
(***************************************************************************)
C8_RenameDecidedOnce ==
    [][ /\ inv.pc \notin (VersionPositions \cup {"done"}) => inv'.rename = inv.rename
        /\ (inv'.pc \notin VersionPositions /\ ~inv'.rename) =>
              /\ \A k \in 1..Len(log') :
                    /\ log'[k].op = "update"
                    /\ log'[k].kind \in {"configmap", "deployment"}
              /\ services' = services /\ secrets' = secrets
              /\ serviceAccounts' = serviceAccounts /\ roles' = roles
              /\ roleBindings' = roleBindings /\ routes' = routes
              /\ marker' = marker
              /\ \A d \in DOMAIN deployments :
                    /\ deployments'[d].serviceAccountName = deployments[d].serviceAccountName
                    /\ deployments'[d].volumes = deployments[d].volumes
                    /\ deployments'[d].oauth = deployments[d].oauth
      ]_vars

C8_Witness ==
    /\ ReturnedOk /\ ~inv.rename
    /\ inv.siteVersion = V050 /\ inv.Version = V060
    /\ deployments[TransportDeploymentName].image = GetRouterImageName(V060)
    /\ InLog(Req("update", "deployment", TransportDeploymentName))
    /\ InLog(Req("update", "deployment", ControllerDeploymentName))

(***************************************************************************)
(* C9 as stated: after a successful rename invocation the legacy service   *)
(* skupper-internal is still there exactly when usingRoutes is true, and   *)
(* every other legacy object is gone.                                      *)
(***************************************************************************)
OtherLegacyDeleted ==
    /\ "skupper-controller" \notin DOMAIN routes
    /\ DOMAIN services \cap {"skupper-messaging", "skupper-controller"} = {}
    /\ DOMAIN secrets \cap {"skupper", "skupper-amqps", "skupper-ca",
                            "skupper-internal", "skupper-internal-ca"} = {}
    /\ roleBindings \cap {"skupper-proxy-controller-skupper-edit", "skupper-skupper-view"} = {}
    /\ serviceAccounts \cap {"skupper", "skupper-proxy-controller"} = {}
    /\ roles \cap {"skupper-edit", "skupper-view"} = {}

C9_Original ==
    (ReturnedOk /\ inv.rename)
    => /\ ("skupper-internal" \in DOMAIN services) <=> inv.usingRoutes
       /\ OtherLegacyDeleted

(***************************************************************************)
(* C9 amended: after a successful rename invocation the legacy service     *)
(* skupper-internal is gone exactly when usingRoutes is true and is still  *)
(* there otherwise, and every other legacy object is gone.                 *)
(***************************************************************************)
C9_InternalDeletedWithRoutes ==
    (ReturnedOk /\ inv.rename)
    => /\ ("skupper-internal" \in DOMAIN services) <=> ~inv.usingRoutes
       /\ OtherLegacyDeleted

C9_Witness ==
    /\ ReturnedOk /\ inv.rename /\ inv.usingRoutes
    /\ "skupper-internal" \notin DOMAIN services
    /\ InLog(Req("delete", "service", "skupper-internal"))

(***************************************************************************)
(* C10: an invocation that finds a marker whose original version is older  *)
(* than 0.5.0 has rename true, whatever the stored version and the         *)
(* library's are, and creates no marker.                                   *)
(***************************************************************************)
C10_MarkerForcesRename ==
    (FoundMarker /\ LessRecentThanVersion(inv.originalVersion, RenameThreshold))
    => /\ inv.rename
       /\ ~InLog(MarkerCreate)
       /\ inv.pc \notin {"updateStarted"}

C10_Witness ==
    /\ FoundMarker /\ LessRecentThanVersion(inv.originalVersion, RenameThreshold)
    /\ inv.siteVersion = inv.Version
    /\ inv.rename
    /\ inv.pc = "updateRouter"

(***************************************************************************)
(* C11: in the rename phase a credential request that fails ends the       *)
(* invocation at once with an error, the marker left in place: a refused   *)
(* kube.NewSecret is the last thing the invocation did, and the invocation *)
(* has returned the error.                                                 *)
(***************************************************************************)
C11_FailureAborts ==
    \A k \in 1..Len(log) :
        (log[k].op = "refused" /\ ~inv.crashed)
        => /\ k = Len(log)
           /\ inv.pc = "done" /\ inv.err
           /\ marker # NoMarker

(***************************************************************************)
(* Steps that write the deployments, for C12 and C13.                      *)
(***************************************************************************)
\* lines 342-378 went through, lines 380-428 went through
RouterStep == inv.pc = "updateRouter" /\ inv'.pc = "updateController"
ControllerStep ==
    inv.pc = "updateController" /\ inv'.pc # "updateController" /\ ~inv'.err /\ ~inv'.crashed

\* neither rename nor an image difference applies to the deployment
RouterUnchanged ==
    ~inv.rename /\ deployments[TransportDeploymentName].image = GetRouterImageName(inv.Version)
ControllerUnchanged ==
    /\ ~inv.rename
    /\ deployments[ControllerDeploymentName].image = GetServiceControllerImageName(inv.Version)

\* the step sends the Update of deployment d; a deployment with nothing else
\* to change gets the time of the invocation as its annotation, and only that
Redeployed(d, unchanged) ==
    /\ Len(log') > Len(log)
    /\ log'[Len(log) + 1] = Req("update", "deployment", d)
    /\ unchanged => deployments'[d] = [deployments[d] EXCEPT !.updated = clock]

(***************************************************************************)
(* C12 as stated: for the router and for the controller deployment, hup or *)
(* a bump of the stored version in this invocation has the deployment      *)
(* updated, with the timestamp annotation written when nothing else        *)
(* changes.                                                                *)
(***************************************************************************)
C12_Original ==
    [][ /\ (RouterStep /\ (inv'.hup \/ inv.updateSite)) =>
              Redeployed(TransportDeploymentName, RouterUnchanged)
        /\ (ControllerStep /\ (inv.hup \/ inv.updateSite)) =>
              Redeployed(ControllerDeploymentName, ControllerUnchanged)
      ]_vars

(***************************************************************************)
(* C12 amended: the router deployment is updated when hup is set or the    *)
(* stored version was bumped in this invocation, the controller deployment *)
(* when hup is set; in both cases the timestamp annotation is written when *)
(* neither rename nor an image difference applies.  A bump alone, without  *)
(* hup, rename or an image difference, leaves the controller deployment    *)
(* as it is.                                                               *)
(***************************************************************************)
C12_ForcedRedeploy ==
    [][ /\ (RouterStep /\ (inv'.hup \/ inv.updateSite)) =>
              Redeployed(TransportDeploymentName, RouterUnchanged)
        /\ (ControllerStep /\ inv.hup) =>
              Redeployed(ControllerDeploymentName, ControllerUnchanged)
        /\ (ControllerStep /\ ~inv.hup /\ ControllerUnchanged) =>
              (deployments' = deployments /\ log' = log)
      ]_vars

C12_Witness ==
    /\ ReturnedOk /\ inv.updateSite /\ ~inv.hup /\ ~inv.rename
    /\ deployments[TransportDeploymentName].updated = clock
    /\ deployments[ControllerDeploymentName].updated # clock
    /\ InLog(Req("update", "deployment", TransportDeploymentName))
    /\ ~InLog(Req("update", "deployment", ControllerDeploymentName))

(***************************************************************************)
(* C13 as stated: with library 0.6.0, stored version 0.6.0-rc1 and hup not *)
(* set, the stored version is rewritten to 0.6.0, rename is false, and a   *)
(* deployment whose image is already the desired one is not written.       *)
(***************************************************************************)
Scenario060 == inv.Version = V060 /\ inv.siteVersion = V060rc1 /\ ~inv'.hup

C13_Original ==
    [][ /\ (RouterStep /\ Scenario060) =>
              /\ siteVersion = V060 /\ ~inv.rename
              /\ RouterUnchanged => (deployments' = deployments /\ log' = log)
        /\ (ControllerStep /\ Scenario060) =>
              (ControllerUnchanged => (deployments' = deployments /\ log' = log))
      ]_vars

(***************************************************************************)
(* C13 amended: with library 0.6.0, stored version 0.6.0-rc1, hup not set  *)
(* and no update marker present, the stored version is rewritten to 0.6.0, *)
(* rename is false and nothing is created, issued or deleted; the router   *)
(* deployment is updated in any case, with the timestamp annotation        *)
(* written when its image is already the desired one; the controller       *)
(* deployment is updated exactly when its image differs from the desired   *)
(* one.                                                                    *)
(***************************************************************************)
C13_Scenario060 ==
    [][ /\ (RouterStep /\ Scenario060 /\ ~FoundMarker) =>
              /\ siteVersion = V060 /\ ~inv.rename
              /\ \A k \in 1..Len(log) : log[k].op = "update"
              /\ Redeployed(TransportDeploymentName, RouterUnchanged)
              /\ deployments'[TransportDeploymentName].image = GetRouterImageName(V060)
        /\ (ControllerStep /\ Scenario060 /\ ~FoundMarker) =>
              /\ ControllerUnchanged => (deployments' = deployments /\ log' = log)
              /\ ~ControllerUnchanged =>
                    /\ Redeployed(ControllerDeploymentName, FALSE)
                    /\ deployments'[ControllerDeploymentName].image
                          = GetServiceControllerImageName(V060)
      ]_vars

C13_Witness ==
    /\ ReturnedOk /\ ~FoundMarker /\ ~inv.hup
    /\ inv.Version = V060 /\ inv.siteVersion = V060rc1 /\ siteVersion = V060
    /\ log = << Req("update", "configmap", "skupper-internal"),
                Req("update", "deployment", TransportDeploymentName) >>
    /\ deployments[TransportDeploymentName].updated = clock

(***************************************************************************)
(* C14: over any sequence of invocations, every write of the stored site   *)
(* version sets it to the library version of the writing invocation, takes *)
(* place only when that version is more recent than or equivalent to the   *)
(* stored one, and never replaces the stored version by a less recent one. *)
(***************************************************************************)
VersionWritten ==
    \/ siteVersion' # siteVersion
    \/ /\ Len(log') > Len(log)
       /\ log'[Len(log')] = Req("update", "configmap", "skupper-internal")

C14_VersionMonotonic ==
    [][ VersionWritten =>
           /\ siteVersion' = inv.Version
           /\ ~LessRecentThanVersion(siteVersion', siteVersion)
           /\ \/ MoreRecentThanVersion(inv.Version, siteVersion)
              \/ EquivalentVersion(inv.Version, siteVersion)
      ]_vars

C14_Witness ==
    /\ clock = 2
    /\ inv.Version = V060rc1 /\ inv.siteVersion = V060
    /\ siteVersion = V060rc1
    /\ InLog(Req("update", "configmap", "skupper-internal"))

(***************************************************************************)
(* C15: the requests of an invocation come in the order of the phases:     *)
(* marker and stored version, rename, router deployment, controller        *)
(* deployment, cleanup, marker deletion.  A legacy object is deleted only  *)
(* in an invocation with rename true, after the Update of both deployments *)
(* of that invocation went through and with the objects the rename phase   *)
(* creates or copies in place.                                             *)
(***************************************************************************)
Phase(e) ==
    CASE e = MarkerCreate -> 2
      [] e = Req("update", "configmap", "skupper-internal") -> 2
      [] e.kind = "deployment" /\ e.name = TransportDeploymentName -> 4
      [] e.op = "print" /\ e.kind = "warning" -> 4
      [] e.kind = "deployment" /\ e.name = ControllerDeploymentName -> 5
      [] e.op = "print" /\ e.kind = "console" -> 5
      [] e.op = "delete" /\ e.kind # "configmap" -> 6
      [] e.op = "delete" /\ e.kind = "configmap" -> 7
      [] OTHER -> 3

RenamePhaseDone ==
    /\ {LocalTransportServiceName, TransportServiceName, ControllerServiceName}
          \subseteq DOMAIN services
    /\ {LocalCaSecret, SiteCaSecret} \subseteq DOMAIN secrets
    /\ {TransportServiceAccountName, ControllerServiceAccountName} \subseteq serviceAccounts
    /\ {TransportRoleName, ControllerRoleName} \subseteq roles
    /\ {TransportRoleBindingName, ControllerRoleBindingName} \subseteq roleBindings

C15_PhaseOrder ==
    /\ \A j, k \in 1..Len(log) : j < k => Phase(log[j]) <= Phase(log[k])
    /\ \A k \in 1..Len(log) : Phase(log[k]) = 3 => inv.rename
    /\ \A k \in 1..Len(log) :
          Phase(log[k]) = 6 =>
             /\ inv.rename
             /\ \E i, j \in 1..(k - 1) :
                   /\ i < j
                   /\ log[i] = Req("update", "deployment", TransportDeploymentName)
                   /\ log[j] = Req("update", "deployment", ControllerDeploymentName)
             /\ RenamePhaseDone
    /\ inv.pc \in CleanupPositions =>
          /\ inv.rename
          /\ InLog(Req("update", "deployment", ControllerDeploymentName))

C15_Witness ==
    /\ ReturnedOk /\ inv.rename
    /\ \E k \in 1..Len(log) : Phase(log[k]) = 3
    /\ InLog(Req("delete", "secret", "skupper-amqps"))
    /\ log[1] = MarkerCreate
    /\ log[Len(log)] = Req("delete", "configmap", "skupper-update-state")

(***************************************************************************)
(* C16: a legacy secret that cleanup has deleted has its replacement under *)
(* the current name: skupper-local-client for skupper,                     *)
(* skupper-local-server for skupper-amqps, skupper-site-server for         *)
(* skupper-internal.                                                       *)
(***************************************************************************)
ReplacedBy(legacy) ==
    CASE legacy = "skupper" -> LocalClientSecret
      [] legacy = "skupper-amqps" -> LocalServerSecret
      [] legacy = "skupper-internal" -> SiteServerSecret

C16_ReplacementExists ==
    \A legacy \in {"skupper", "skupper-amqps", "skupper-internal"} :
        InLog(Req("delete", "secret", legacy)) => ReplacedBy(legacy) \in DOMAIN secrets

(***************************************************************************)
(* C17: each of the two loops waiting for a load balancer's host makes one *)
(* lookup a turn and at most MaxAttempts of them.  When the last lookup    *)
(* finds no host the invocation goes on: after the transport loop with a   *)
(* host list that holds the internal names and no resolved host, after the *)
(* console loop without the message about the console's address.           *)
(***************************************************************************)
PollPositions == {"pollTransport", "pollConsole"}

\* the invocation makes a lookup of the loop it is in
Lookup == inv.pc \in PollPositions /\ inv' # inv /\ ~inv'.crashed /\ ~inv'.err

\* the lookup about to be made is the last one and finds no host
LastLookupFails(name) ==
    /\ inv.i = MaxAttempts - 1
    /\ name \in DOMAIN services
    /\ GetLoadBalancerHostOrIP(services[name]) = ""

C17_PollingBounded ==
    [][ /\ inv'.pc \in PollPositions => inv'.i < MaxAttempts
        /\ (Lookup /\ inv'.pc = inv.pc) => inv'.i = inv.i + 1
        /\ (Lookup /\ inv.pc = "pollTransport" /\ LastLookupFails(TransportServiceName)) =>
              /\ inv'.pc = "newSecrets"
              /\ LET hosts == inv'.credentials[Len(inv'.credentials)].Hosts IN
                 /\ \E k \in 1..Len(hosts) : hosts[k] = "skupper-router"
                 /\ \E k \in 1..Len(hosts) : hosts[k] = "skupper-router.ns.svc.cluster.local"
                 /\ \A k \in 1..Len(hosts) : hosts[k] \notin LoadBalancerHosts(TransportServiceName)
        /\ (Lookup /\ inv.pc = "pollConsole" /\ LastLookupFails(ControllerServiceName)) =>
              /\ inv'.pc \notin PollPositions
              /\ log' = log
        /\ (inv.pc \in PollPositions /\ inv.i = MaxAttempts - 1 /\ ~inv.faults /\ inv' # inv) =>
              (~inv'.err /\ inv'.pc \notin PollPositions)
      ]_vars

\* the transport loop ran out of attempts: the new service still has no host
C17_Witness ==
    /\ inv.pc = "newSecrets" /\ inv.i = 1
    /\ ~inv.usingRoutes
    /\ services["skupper-internal"].type = "LoadBalancer"
    /\ services[TransportServiceName].host = ""
    /\ Len(inv.credentials) = 3
    /\ inv.credentials[3].Hosts[1] \notin LoadBalancerHosts(TransportServiceName)

(***************************************************************************)
(* Credential requests of the invocation, for C18 to C20.                  *)
(***************************************************************************)
\* a request for the credential was handed to kube.NewSecret
Submitted(name) ==
    \E k \in 1..Len(log) :
        /\ log[k].kind = "secret" /\ log[k].name = name
        /\ log[k].op \in {"issue", "refused"}

AfterCredentialPositions ==
    {"copyTransportSA", "copyControllerSA", "createControllerRole", "copyTransportRole",
     "createRoleBindings", "consoleRoute", "edgeRoute", "interRouterRoute",
     "updateRouter", "updateController", "pollConsole", "updateCompleted", "return"}
    \cup CleanupPositions

\* the invocation renames and is past the loop of lines 211-217
PastCredentials ==
    /\ inv.rename
    /\ \/ inv.pc \in AfterCredentialPositions
       \/ inv.pc = "done" /\ inv.at \in AfterCredentialPositions

(***************************************************************************)
(* C18 as stated: an invocation with rename true has requested the local   *)
(* server credential and the site server credential from the issuer,       *)
(* whatever the exposure.                                                  *)
(***************************************************************************)
C18_Original ==
    PastCredentials => (Submitted(LocalServerSecret) /\ Submitted(SiteServerSecret))

(***************************************************************************)
(* C18 amended: an invocation with rename true has requested the local     *)
(* server credential from the issuer in every case, and the site server    *)
(* credential exactly when it found routes not in use; with routes in use  *)
(* the site server secret is there as a copy and no request was made for   *)
(* it.                                                                     *)
(***************************************************************************)
C18_SiteServerIssuedWithoutRoutes ==
    PastCredentials =>
       /\ Submitted(LocalServerSecret)
       /\ Submitted(SiteServerSecret) <=> ~inv.usingRoutes
       /\ inv.usingRoutes => SiteServerSecret \in DOMAIN secrets

C18_Witness ==
    /\ PastCredentials /\ inv.usingRoutes
    /\ Submitted(LocalServerSecret) /\ ~Submitted(SiteServerSecret)
    /\ InLog(Req("create", "secret", SiteServerSecret))
    /\ secrets[SiteServerSecret].subject = "skupper-internal"

(***************************************************************************)
(* C19: every credential the rename phase hands to kube.NewSecret with     *)
(* ConnectJson false has a host list that is not empty and a subject of    *)
(* fewer than 64 characters; the only credential with an empty host list   *)
(* is the client bundle skupper-local-client, which has ConnectJson true.  *)
(***************************************************************************)
C19_CredentialsWellFormed ==
    \A k \in 1..Len(inv.credentials) :
        LET cred == inv.credentials[k] IN
        /\ ~cred.ConnectJson => (cred.Hosts # <<>> /\ Len(cred.Subject) < 64)
        /\ cred.Hosts = <<>> => (cred.ConnectJson /\ cred.Name = "skupper-local-client")

\* the resolved host is too long for a subject and is passed over
C19_Witness ==
    /\ inv.pc = "newSecrets"
    /\ Len(inv.credentials) = 3
    /\ Len(inv.credentials[3].Hosts[1]) >= 64
    /\ inv.credentials[3].Subject = "10.0.0.1"
    /\ inv.credentials[2].Hosts = <<>>

(***************************************************************************)
(* C20: without routes the site server credential has the host list        *)
(* [host of the new service if the loop resolved one, host of the legacy   *)
(* service if it has one, skupper-router, its qualified name, the          *)
(* qualified name of skupper-internal], the two external hosts only for a  *)
(* legacy service of type LoadBalancer; its subject is the first of these  *)
(* hosts shorter than 64 characters, skupper-router if there is none.      *)
(***************************************************************************)
ExpectedHosts ==
    LET old == services["skupper-internal"]
        new == services["skupper-router"]
        lb == old.type = "LoadBalancer"
    IN  (IF lb /\ new.host # "" THEN <<new.host>> ELSE <<>>)
        \o (IF lb /\ old.host # "" THEN <<old.host>> ELSE <<>>)
        \o << "skupper-router", "skupper-router.ns.svc.cluster.local",
              "skupper-internal.ns.svc.cluster.local" >>

FirstShort(hosts) ==
    IF \E k \in 1..Len(hosts) : Len(hosts[k]) < 64
    THEN hosts[CHOOSE k \in 1..Len(hosts) :
                  /\ Len(hosts[k]) < 64
                  /\ \A j \in 1..(k - 1) : Len(hosts[j]) >= 64]
    ELSE "skupper-router"

C20_SiteServerCredential ==
    (inv.pc = "newSecrets" /\ ~inv.usingRoutes) =>
       /\ Len(inv.credentials) = 3
       /\ inv.credentials[3].Name = "skupper-site-server"
       /\ inv.credentials[3].CA = "skupper-site-ca"
       /\ inv.credentials[3].Hosts = ExpectedHosts
       /\ inv.credentials[3].Subject = FirstShort(ExpectedHosts)

C20_Witness ==
    /\ inv.pc = "newSecrets" /\ ~inv.usingRoutes
    /\ Len(inv.credentials) = 3
    /\ inv.credentials[3].Hosts =
          << "10.0.0.2", "10.0.0.1", "skupper-router",
             "skupper-router.ns.svc.cluster.local",
             "skupper-internal.ns.svc.cluster.local" >>
    /\ inv.credentials[3].Subject = "10.0.0.2"

(***************************************************************************)
(* C21: in a rename with routes in use the secret skupper-site-server is   *)
(* the legacy secret skupper-internal copied as it is (nothing is written  *)
(* when skupper-site-server exists already), no site server credential is  *)
(* handed to the certificate authority and the transport hosts are not     *)
(* looked up; without routes the secret is never copied, it is created     *)
(* only from a credential the certificate authority has just signed, and   *)
(* an invocation that meets no refusal does ask for that signature.        *)
(***************************************************************************)
SiteServerEntries(l) ==
    {k \in 1..Len(l) : l[k].kind = "secret" /\ l[k].name = "skupper-site-server"}

C21_CopiedWithRoutes ==
    [][ /\ (inv.pc = "copySiteServer" /\ inv'.pc = "newSecrets") =>
              /\ inv.usingRoutes
              /\ secrets' = IF "skupper-site-server" \in DOMAIN secrets THEN secrets
                            ELSE Put(secrets, "skupper-site-server",
                                     secrets["skupper-internal"])
        /\ inv'.usingRoutes =>
              /\ inv'.pc \notin {"getTransportHosts", "pollTransport"}
              /\ \A k \in SiteServerEntries(log') : log'[k].op = "create"
              /\ \A k \in 1..Len(inv'.credentials) :
                    inv'.credentials[k].Name # "skupper-site-server"
        /\ ~inv'.usingRoutes =>
              /\ inv'.pc # "copySiteServer"
              /\ \A k \in SiteServerEntries(log') :
                    log'[k].op = "create" => (k > 1 /\ log'[k - 1].op = "issue"
                                                    /\ (k - 1) \in SiteServerEntries(log'))
              /\ (inv.pc = "newSecrets" /\ inv'.pc = "copyTransportSA" /\ ~inv.faults) =>
                    \E k \in SiteServerEntries(log') : log'[k].op = "issue"
      ]_vars

\* the copy has been made: skupper-site-server is what skupper-internal was
C21_Witness ==
    /\ inv.usingRoutes /\ inv.pc = "newSecrets"
    /\ InLog(Req("create", "secret", "skupper-site-server"))
    /\ "skupper-internal" \in DOMAIN secrets
    /\ secrets["skupper-site-server"] = secrets["skupper-internal"]
    /\ secrets["skupper-site-server"].subject = "skupper-internal"

(***************************************************************************)
(* C22: the requests of the rename phase come kind by kind, in the order   *)
(* services, secrets (certificate authorities and credentials), service    *)
(* accounts, roles, role bindings, routes: in the log no request of a kind *)
(* precedes a request of an earlier kind, and while the function is at the *)
(* steps of one kind no request of a later kind has been made.             *)
(***************************************************************************)
RenameKinds == <<"service", "secret", "serviceaccount", "role", "rolebinding", "route">>
KindRank(kind) == CHOOSE k \in 1..Len(RenameKinds) : RenameKinds[k] = kind

\* the requests of the rename phase in the log: everything but deletes
RenameEntries ==
    {k \in 1..Len(log) : /\ log[k].op \in {"create", "update", "issue", "refused"}
                         /\ \E r \in 1..Len(RenameKinds) : RenameKinds[r] = log[k].kind}

\* the kind whose steps the function is at, 0 before and 7 after the rename phase
PositionRank(pc) ==
    CASE pc \in {"idle", "loadSite", "isUpdating", "updateStarted", "updateConfigMap"} -> 0
      [] pc \in {"copyMessaging", "copyInternal", "copyController", "routerConsole"} -> 1
      [] pc \in {"copyLocalCa", "copySiteCa", "usingRoutes", "copySiteServer",
                 "getTransportHosts", "pollTransport", "newSecrets"} -> 2
      [] pc \in {"copyTransportSA", "copyControllerSA"} -> 3
      [] pc \in {"createControllerRole", "copyTransportRole"} -> 4
      [] pc = "createRoleBindings" -> 5
      [] pc \in {"consoleRoute", "edgeRoute", "interRouterRoute"} -> 6
      [] OTHER -> 7

C22_KindOrder ==
    /\ \A j \in RenameEntries : \A k \in RenameEntries :
          j < k => KindRank(log[j].kind) <= KindRank(log[k].kind)
    /\ \A k \in RenameEntries : KindRank(log[k].kind) <= PositionRank(inv.pc)

\* a rename that made requests of all six kinds
C22_Witness ==
    /\ inv.pc = "updateRouter" /\ inv.rename
    /\ \A r \in 1..Len(RenameKinds) :
          \E k \in RenameEntries : log[k].kind = RenameKinds[r] /\ log[k].op = "create"

(***************************************************************************)
(* C23, as stated: in a rename invocation that has updated the router      *)
(* deployment the warning about new tokens has been printed exactly when   *)
(* routes are not in use and the host the lookup loop resolved for the new *)
(* transport service is an IP address.                                     *)
(***************************************************************************)
Warned == InLog(Req("print", "warning", "new tokens required"))
RouterUpdated == InLog(Req("update", "deployment", "skupper-router"))

\* the host the loop of getTransportHosts found for the new service, "" if none
ResolvedHost ==
    IF "skupper-router" \in DOMAIN services THEN services["skupper-router"].host ELSE ""

C23_Original ==
    (inv.rename /\ RouterUpdated) =>
        (Warned <=> (~inv.usingRoutes /\ ResolvedHost \in {"10.0.0.1", "10.0.0.2"}))

(***************************************************************************)
(* C23: in a rename invocation that has updated the router deployment the  *)
(* warning about new tokens has been printed exactly when routes are not   *)
(* in use and the first external host of a load-balanced legacy transport  *)
(* service is an IP address, that host being the one resolved for the new  *)
(* service or, when the loop resolved none, the host of the legacy         *)
(* service; the warning is printed only after the router deployment was    *)
(* updated, only in a rename, and no invocation ends with an error at the  *)
(* step that printed it.                                                   *)
(***************************************************************************)
FirstExternalHost ==
    IF "skupper-internal" \in DOMAIN services
       /\ services["skupper-internal"].type = "LoadBalancer"
    THEN IF ResolvedHost # "" THEN ResolvedHost ELSE services["skupper-internal"].host
    ELSE ""

C23_WarningOnFirstHost ==
    /\ (inv.rename /\ RouterUpdated) =>
          (Warned <=> (~inv.usingRoutes /\ FirstExternalHost \in {"10.0.0.1", "10.0.0.2"}))
    /\ Warned => (inv.rename /\ RouterUpdated)
    /\ (Warned /\ inv.pc = "done") => inv.at # "updateRouter"

\* the loop resolved no host, the legacy host is an IP address: warned
C23_Witness ==
    /\ ReturnedOk /\ inv.rename /\ ~inv.usingRoutes
    /\ Warned
    /\ ResolvedHost = ""
    /\ FirstExternalHost = "10.0.0.1"

(***************************************************************************)
(* C24: the marker is created with from = the site version stored at that  *)
(* moment, before the invocation rewrites it; afterwards the marker only   *)
(* ever changes by being deleted, whatever later invocations do and        *)
(* whatever the stored site version becomes; an invocation that finds the  *)
(* marker reads that same value.                                           *)
(***************************************************************************)
C24_MarkerFromKept ==
    [][ /\ marker' # marker =>
              \/ /\ marker = NoMarker
                 /\ marker' = <<siteVersion>>
                 /\ siteVersion' = siteVersion
                 /\ inv.pc = "updateStarted"
              \/ marker' = NoMarker
        /\ siteVersion' # siteVersion => marker' = marker
        /\ (inv.pc = "isUpdating" /\ inv'.pc # "done" /\ marker # NoMarker) =>
              inv'.originalVersion = marker[1]
      ]_vars

\* a later invocation has rewritten the stored version; from is still 0.4.2
C24_Witness ==
    /\ clock = 2 /\ prev.outcome = "interrupted"
    /\ inv.pc = "copyMessaging" /\ inv.updateSite
    /\ marker = << <<0, 4, 2, "">> >>
    /\ inv.originalVersion = <<0, 4, 2, "">>
    /\ siteVersion = <<0, 6, 0, "">>
    /\ ~InLog(MarkerCreate)

(***************************************************************************)
(* C25: an upgrade that needs no rename converges on re-invocation: when   *)
(* an invocation wrote the library's version 0.6.0 into the site and then  *)
(* stopped at the router deployment without updating it, a following       *)
(* invocation with the same library version that meets no fault and        *)
(* returns without error has updated the router deployment.                *)
(***************************************************************************)
C25_BumpThenFailConverges ==
    ( /\ clock = 2 /\ prev.outcome = "interrupted" /\ prev.at = "updateRouter"
      /\ ~inv.faults /\ ReturnedOk /\ ~inv.rename
      /\ inv.Version = <<0, 6, 0, "">> /\ siteVersion = <<0, 6, 0, "">>
      /\ ~inv.updateSite )
    => InLog(Req("update", "deployment", "skupper-router"))

(***************************************************************************)
(* C26: a rename in which the lookup of the inter-router route fails       *)
(* although the route is there goes on with usingRoutes false: no          *)
(* invocation returns an error from that lookup, the legacy secret is not  *)
(* copied, the transport hosts are read and a site server credential is    *)
(* built and handed to kube.NewSecret, and the legacy service              *)
(* skupper-internal is not deleted by the cleanup.                         *)
(***************************************************************************)
\* the lookup has been made and answered false with the route in place
DetectionFailed ==
    /\ inv.rename /\ inv.credentials # <<>>
    /\ routeClient /\ "skupper-inter-router" \in DOMAIN routes
    /\ ~inv.usingRoutes

C26_DetectionFailureIgnored ==
    /\ (inv.pc = "done" /\ ~inv.crashed) => inv.at # "usingRoutes"
    /\ DetectionFailed =>
          /\ inv.pc # "copySiteServer"
          /\ inv.pc \notin {"getTransportHosts", "pollTransport", "done"} =>
                /\ Len(inv.credentials) = 3
                /\ inv.credentials[3].Name = "skupper-site-server"
          /\ inv.pc \notin {"getTransportHosts", "pollTransport", "newSecrets", "done"} =>
                \E k \in 1..Len(log) : /\ log[k].op \in {"issue", "refused"}
                                       /\ log[k].kind = "secret"
                                       /\ log[k].name = "skupper-site-server"
          /\ ~InLog(Req("delete", "service", "skupper-internal"))
          /\ inv.pc \in {"deleteSecrets", "updateCompleted"} =>
                "skupper-internal" \in DOMAIN services

\* the invocation has returned without error, with a signed site server secret
C26_Witness ==
    /\ DetectionFailed /\ ReturnedOk
    /\ InLog(Req("issue", "secret", "skupper-site-server"))
    /\ InLog(Req("delete", "service", "skupper-controller"))
    /\ "skupper-internal" \in DOMAIN services
    /\ secrets["skupper-site-server"].subject = "skupper-router"

(***************************************************************************)
(* C27, as stated: of two overlapping invocations that both read a site    *)
(* version older than 0.5.0 and both found no marker, at most one creates  *)
(* the marker.                                                             *)
(***************************************************************************)
CreatedMarker(l) == \E k \in 1..Len(l) : l[k] = MarkerCreate
DeletedMarker(l) ==
    \E k \in 1..Len(l) : l[k] = Req("delete", "configmap", "skupper-update-state")

C27_Original ==
    ~(CreatedMarker(log) /\ CreatedMarker(peer.log))

(***************************************************************************)
(* C27: with two overlapping invocations a marker create succeeds only     *)
(* while no marker exists, so that both invocations create a marker only   *)
(* when the first has deleted its own in between; an invocation whose      *)
(* create finds the marker in place returns false with the error at that   *)
(* step, has made no writing request, has not set inprogress and leaves    *)
(* the marker as it is.                                                    *)
(***************************************************************************)
C27_CreateOnlyWhenAbsent ==
    [][ /\ (marker' # marker /\ marker' # NoMarker) => marker = NoMarker
        /\ (CreatedMarker(log') /\ CreatedMarker(peer'.log)) =>
              (DeletedMarker(log') \/ DeletedMarker(peer'.log))
        /\ (inv.pc = "updateStarted" /\ marker # NoMarker /\ peer' = peer) =>
              /\ inv'.pc = "done" /\ inv'.at = "updateStarted"
              /\ inv'.err /\ ~inv'.ret /\ ~inv'.inprogress
              /\ log' = <<>>
              /\ marker' = marker
      ]_vars

\* the loser has returned while the winner is in the middle of the rename
C27_Witness ==
    /\ ReturnedError /\ inv.at = "updateStarted" /\ log = <<>>
    /\ inv.originalVersion = NoMarker
    /\ marker # NoMarker
    /\ CreatedMarker(peer.log)
    /\ peer.inv.pc = "updateConfigMap"

(***************************************************************************)
(* C28: once a rename invocation has updated a deployment, the secrets     *)
(* skupper-local-server, skupper-local-client and skupper-site-server that *)
(* the deployment mounts, and the service account it runs as, exist in the *)
(* object store.                                                           *)
(***************************************************************************)
C28_ReferencedObjectsExist ==
    \A d \in {"skupper-router", "skupper-service-controller"} :
        (inv.rename /\ InLog(Req("update", "deployment", d))) =>
            /\ \A s \in {"skupper-local-server", "skupper-local-client",
                         "skupper-site-server"} :
                  s \in deployments[d].volumes => s \in DOMAIN secrets
            /\ deployments[d].serviceAccountName \in serviceAccounts

(***************************************************************************)
(* C29: an invocation that returns without error returns true exactly when *)
(* it updated the router deployment, updated the controller deployment or  *)
(* rewrote the stored site version; an invocation that returns an error    *)
(* returns false, except when the error is that of deleting the marker at  *)
(* the end, which comes with true.                                         *)
(***************************************************************************)
C29_ReturnValue ==
    /\ ReturnedOk =>
          (inv.ret <=> \/ InLog(Req("update", "deployment", "skupper-router"))
                       \/ InLog(Req("update", "deployment", "skupper-service-controller"))
                       \/ InLog(Req("update", "configmap", "skupper-internal")))
    /\ ReturnedError => (inv.ret <=> inv.at = "updateCompleted")

\* the marker could not be deleted: true together with the error
C29_Witness ==
    /\ ReturnedError /\ inv.ret /\ inv.at = "updateCompleted"
    /\ marker # NoMarker
    /\ InLog(Req("update", "deployment", "skupper-router"))

=============================================================================
